---- MODULE Spec2Model ----
(***************************************************************************)
(* Record reconciliation in DOsgoodCU/filinks.                             *)
(*                                                                         *)
(*   - process_data (academic_commons_scraper.py): merges scraped          *)
(*     publications into the existing table, asking for a decision on a    *)
(*     same-title / different-URL conflict.                                *)
(*   - main (find_pubdup.py, both versions): pairwise fuzzy pass over the   *)
(*     publications table with interactive merge.                          *)
(*   - similarity (find_pubdup.py): difflib.SequenceMatcher.ratio.         *)
(*                                                                         *)
(* Text is modelled as a sequence of one-character strings.                *)
(***************************************************************************)
EXTENDS Integers, Sequences, FiniteSets, TLC

VARIABLES
    \* ---- process_data ----
    existing_data,        \* the list passed in as existing_data
    scraped_data,         \* the list passed in as scraped_data
    total_entries,        \* the growing result list
    existing_raw_urls,    \* the accepted-URL set
    new_entries_added,    \* counter printed at the end
    n,                    \* position of new_pub in scraped_data (for loop)
    matching_existing_pub,\* index in existing_data of the match, 0 = None
    choice,               \* last answer read at the conflict prompt
    pc,                   \* "idle" | "loop" | "prompt" | "done"
    run,                  \* 1 = first call, 2 = call on the first call's result
    first_result,         \* what the first call returned
    all_skip,             \* every conflict so far was answered 1 or S (skip new)
    printed,              \* what process_data printed about its decisions
    \* ---- find_pubdup main ----
    version,              \* "main" (src/find_pubdup.py) | "functional"
    df,                   \* the table, a sequence of rows
    i, j,                 \* loop indices (1-based here, 0-based in the code)
    fp_choice,            \* answer to "Merge these?"
    merged_row,           \* dict being built by the merge
    col,                  \* position of the column loop inside a merge
    sel,                  \* last answer to "Choose (1/2/custom)"
    fp_pc,                \* "idle" | "scan" | "ask" | "merge" | "done"
    output,               \* rows written to OUTPUT_FILE
    fp_run, first_output, fp_all_skip,
    fp_printed,           \* the pairs main printed, each with the answer given
    \* ---- similarity as a pure function ----
    sim_a, sim_b, sim_ab, sim_ba, sim_pc,
    \* ---- the other pure functions: argument, results, position ----
    pure_in, pure_out, pure_pc,
    \* ---- the programs that read the source tables ----
    src_prog,             \* which program runs
    src_files,            \* source kind -> rows of the file, or Unreadable
    src_kind,             \* position in the list of sources
    src_row,              \* position in the rows of the current source
    src_entries,          \* entries / rows collected so far
    src_warnings,         \* number of warning lines printed
    src_status            \* "idle" | "open" | "rows" | "done" | "exit"

pdvars  == <<existing_data, scraped_data, total_entries, existing_raw_urls,
             new_entries_added, n, matching_existing_pub, choice, pc, run,
             first_result, all_skip, printed>>
fpvars  == <<version, df, i, j, fp_choice, merged_row, col, sel, fp_pc,
             output, fp_run, first_output, fp_all_skip, fp_printed>>
simvars == <<sim_a, sim_b, sim_ab, sim_ba, sim_pc>>
purevars == <<pure_in, pure_out, pure_pc>>
srcvars  == <<src_prog, src_files, src_kind, src_row, src_entries, src_warnings,
              src_status>>
vars    == <<pdvars, fpvars, simvars, purevars, srcvars>>

PureIdle == pure_in = <<>> /\ pure_out = <<>> /\ pure_pc = "idle"
SrcIdle ==
    /\ src_prog = "" /\ src_files = <<>> /\ src_kind = 0 /\ src_row = 0
    /\ src_entries = <<>> /\ src_warnings = 0 /\ src_status = "idle"

(***************************************************************************)
(* Bounds                                                                  *)
(***************************************************************************)
MaxExisting == 2
MaxScraped  == 2
MaxRows     == 3
MaxSimLen   == 3

(***************************************************************************)
(* Text helpers                                                            *)
(***************************************************************************)
Q == "\""
NaN == <<"NaN">>     \* a missing cell (pandas NaN); not a text

UpperChars == <<"A","B","C","D","E","F","G","H","I","J","K","L","M",
                "N","O","P","Q","R","S","T","U","V","W","X","Y","Z">>
LowerChars == <<"a","b","c","d","e","f","g","h","i","j","k","l","m",
                "n","o","p","q","r","s","t","u","v","w","x","y","z">>
DigitChars == <<"0","1","2","3","4","5","6","7","8","9">>

Range(s) == { s[k] : k \in DOMAIN s }

IsDigit(c) == c \in Range(DigitChars)
IsAlnum(c) == c \in Range(UpperChars) \cup Range(LowerChars) \cup Range(DigitChars)
IsSpace(c) == c \in {" ", "\t", "\n"}

\* str.lower() on one character
LowerChar(c) ==
    IF c \in Range(UpperChars)
    THEN LowerChars[CHOOSE k \in DOMAIN UpperChars : UpperChars[k] = c]
    ELSE c

\* str.lower()
Lower(s) == [k \in DOMAIN s |-> LowerChar(s[k])]

\* str.strip()
RECURSIVE LStrip(_)
LStrip(s) == IF s # <<>> /\ IsSpace(Head(s)) THEN LStrip(Tail(s)) ELSE s
RECURSIVE RStrip(_)
RStrip(s) == IF s # <<>> /\ IsSpace(s[Len(s)])
             THEN RStrip(SubSeq(s, 1, Len(s) - 1)) ELSE s
Strip(s) == RStrip(LStrip(s))

\* all sequences over S of length 0..k
RECURSIVE SeqsUpTo(_, _)
SeqsUpTo(S, k) ==
    IF k = 0 THEN { <<>> }
    ELSE LET shorter == SeqsUpTo(S, k - 1)
         IN  shorter \cup { Append(s, x) : s \in shorter, x \in S }

(***************************************************************************)
(* academic_commons_scraper.py                                             *)
(***************************************************************************)

\* normalize_title: re.sub(r'[\W_]+', '', title).lower().strip()
normalize_title(title) == Strip(Lower(SelectSeq(title, IsAlnum)))

\* raw URLs and raw titles the inputs are drawn from
ScrapedUrls  == { <<"a">>, <<"a","?","r">> }
ExistingUrls == ScrapedUrls \cup { <<>> }   \* '' when load_existing_data finds no href
RawTitles    == { <<"A","-","b">>, <<"a","b">>, <<"c">> }

\* a publication dict, as built by scrape_publications / load_existing_data;
\* the CSV columns are carried along unchanged and play no part in the control flow
Pub(u, t) == [raw_url |-> u, raw_title |-> t, normalized_title |-> normalize_title(t)]

ScrapedPubs  == { Pub(u, t) : u \in ScrapedUrls,  t \in RawTitles }
ExistingPubs == { Pub(u, t) : u \in ExistingUrls, t \in RawTitles }

\* find_matching_entry: first existing entry with the same normalized title
find_matching_entry(pub, data) ==
    LET hits == { k \in DOMAIN data :
                    pub.normalized_title = data[k].normalized_title }
    IN  IF hits = {} THEN 0
        ELSE CHOOSE k \in hits : \A m \in hits : k <= m

\* variant: the URL check gives way to a title match
IsDirectDuplicate_TitleFirst(pub, urls) ==
    pub.raw_url \in urls /\ find_matching_entry(pub, existing_data) = 0

\* "if new_url in existing_raw_urls"
IsDirectDuplicate(pub, urls) == pub.raw_url \in urls

\* the title lookup of process_data: find_matching_entry(new_pub, existing_data)
TitleMatch(pub) == find_matching_entry(pub, existing_data)

\* [p for p in total_entries if p['raw_url'] != existing_url]
RemoveByUrl(entries, existing_url) ==
    SelectSeq(entries, LAMBDA p : p.raw_url # existing_url)

\* the accepted-URL set after choice 'B' (the branch does not touch it)
UrlsAfterKeepBoth(urls, pub) == urls

\* the link without its query string and fragment
StripQueryFragment(u) ==
    LET cut == { k \in DOMAIN u : u[k] \in { "?", "#" } }
    IN  IF cut = {} THEN u
        ELSE SubSeq(u, 1, (CHOOSE k \in cut : \A m \in cut : k <= m) - 1)

\* variant: the set receives the stripped link, the lookup uses the raw one
UrlsAfterAdd_Stripped(urls, pub) == urls \cup { StripQueryFragment(pub.raw_url) }

\* the accepted-URL set after a record is added with no conflict
UrlsAfterAdd(urls, pub) == urls \cup { pub.raw_url }

new_pub == scraped_data[n]

\* print(f"Skipping direct duplicate (URL match): '{new_title}'"): the line
\* names the title of the new entry and nothing of the existing one
DuplicateLine(pub) ==
    [ outcome |-> "duplicate", incoming |-> [ title |-> pub.raw_title ],
      existing |-> <<>> ]

\* the conflict block (title and URL of the new entry, URL of the existing
\* one) together with the line printed for the choice
ConflictLines(pub, existing_pub, answer) ==
    [ outcome |-> answer,
      incoming |-> [ title |-> pub.raw_title, url |-> pub.raw_url ],
      existing |-> [ url |-> existing_pub.raw_url ] ]

PDIdle ==
    /\ existing_data = <<>> /\ scraped_data = <<>> /\ total_entries = <<>>
    /\ existing_raw_urls = {} /\ new_entries_added = 0 /\ n = 0
    /\ matching_existing_pub = 0 /\ choice = "" /\ pc = "idle"
    /\ run = 0 /\ first_result = <<>> /\ all_skip = TRUE
    /\ printed = <<>>

\* entry of process_data: total_entries = existing_data[:], the URL set
StartPD(existing, scraped, r) ==
    /\ existing_data = existing
    /\ scraped_data = scraped
    /\ total_entries = existing
    /\ existing_raw_urls = { existing[k].raw_url : k \in DOMAIN existing }
    /\ new_entries_added = 0
    /\ n = 1
    /\ matching_existing_pub = 0
    /\ choice = ""
    /\ pc = "loop"
    /\ run = r
    /\ printed = <<>>

\* 1. direct URL match: continue
SkipDirectDuplicate ==
    /\ pc = "loop" /\ n <= Len(scraped_data)
    /\ IsDirectDuplicate(new_pub, existing_raw_urls)
    /\ n' = n + 1
    /\ UNCHANGED <<existing_data, scraped_data, total_entries, existing_raw_urls,
                   new_entries_added, matching_existing_pub, choice, pc, run,
                   first_result, all_skip>>
    /\ printed' = Append(printed, DuplicateLine(new_pub))
    /\ UNCHANGED <<fpvars, simvars, purevars, srcvars>>

\* 2. title match: the conflict is printed and the prompt loop entered
DetectConflict ==
    /\ pc = "loop" /\ n <= Len(scraped_data)
    /\ ~IsDirectDuplicate(new_pub, existing_raw_urls)
    /\ TitleMatch(new_pub) # 0
    /\ matching_existing_pub' = TitleMatch(new_pub)
    /\ pc' = "prompt"
    /\ UNCHANGED <<existing_data, scraped_data, total_entries, existing_raw_urls,
                   new_entries_added, n, choice, run, first_result, all_skip>>
    /\ UNCHANGED printed
    /\ UNCHANGED <<fpvars, simvars, purevars, srcvars>>

\* variant: the new entry is put in front of the store
AddNewEntry_Prepends ==
    /\ pc = "loop" /\ n <= Len(scraped_data)
    /\ ~IsDirectDuplicate(new_pub, existing_raw_urls)
    /\ TitleMatch(new_pub) = 0
    /\ matching_existing_pub' = 0
    /\ total_entries' = <<new_pub>> \o total_entries
    /\ existing_raw_urls' = UrlsAfterAdd(existing_raw_urls, new_pub)
    /\ new_entries_added' = new_entries_added + 1
    /\ n' = n + 1
    /\ UNCHANGED <<existing_data, scraped_data, choice, pc, run, first_result,
                   all_skip>>
    /\ UNCHANGED printed
    /\ UNCHANGED <<fpvars, simvars, purevars, srcvars>>

\* 3. no match: add the new entry
AddNewEntry ==
    /\ pc = "loop" /\ n <= Len(scraped_data)
    /\ ~IsDirectDuplicate(new_pub, existing_raw_urls)
    /\ TitleMatch(new_pub) = 0
    /\ matching_existing_pub' = 0
    /\ total_entries' = Append(total_entries, new_pub)
    /\ existing_raw_urls' = UrlsAfterAdd(existing_raw_urls, new_pub)
    /\ new_entries_added' = new_entries_added + 1
    /\ n' = n + 1
    /\ UNCHANGED <<existing_data, scraped_data, choice, pc, run, first_result,
                   all_skip>>
    /\ UNCHANGED printed
    /\ UNCHANGED <<fpvars, simvars, purevars, srcvars>>

\* choice == '1': keep existing, skip new
ChooseKeepExisting ==
    /\ pc = "prompt"
    /\ choice' = "1"
    /\ pc' = "loop" /\ n' = n + 1
    /\ UNCHANGED <<existing_data, scraped_data, total_entries, existing_raw_urls,
                   new_entries_added, matching_existing_pub, run, first_result,
                   all_skip>>
    /\ printed' = Append(printed, ConflictLines(new_pub,
                                  existing_data[matching_existing_pub], "1"))
    /\ UNCHANGED <<fpvars, simvars, purevars, srcvars>>

\* choice == '2': replace the existing entry by the new one
ChooseKeepNew ==
    /\ pc = "prompt"
    /\ choice' = "2"
    /\ total_entries' =
         Append(RemoveByUrl(total_entries,
                            existing_data[matching_existing_pub].raw_url),
                new_pub)
    /\ new_entries_added' = new_entries_added + 1
    /\ pc' = "loop" /\ n' = n + 1
    /\ all_skip' = FALSE
    /\ UNCHANGED <<existing_data, scraped_data, existing_raw_urls,
                   matching_existing_pub, run, first_result>>
    /\ printed' = Append(printed, ConflictLines(new_pub,
                                  existing_data[matching_existing_pub], "2"))
    /\ UNCHANGED <<fpvars, simvars, purevars, srcvars>>

\* choice == 'B': keep both
ChooseKeepBoth ==
    /\ pc = "prompt"
    /\ choice' = "B"
    /\ total_entries' = Append(total_entries, new_pub)
    /\ existing_raw_urls' = UrlsAfterKeepBoth(existing_raw_urls, new_pub)
    /\ new_entries_added' = new_entries_added + 1
    /\ pc' = "loop" /\ n' = n + 1
    /\ all_skip' = FALSE
    /\ UNCHANGED <<existing_data, scraped_data, matching_existing_pub, run,
                   first_result>>
    /\ printed' = Append(printed, ConflictLines(new_pub,
                                  existing_data[matching_existing_pub], "B"))
    /\ UNCHANGED <<fpvars, simvars, purevars, srcvars>>

\* variant: the skipped entry is appended all the same
ChooseSkip_Appends ==
    /\ pc = "prompt"
    /\ choice' = "S"
    /\ pc' = "loop" /\ n' = n + 1
    /\ total_entries' = Append(total_entries, new_pub)
    /\ UNCHANGED <<existing_data, scraped_data, existing_raw_urls,
                   new_entries_added, matching_existing_pub, run, first_result,
                   all_skip>>
    /\ printed' = Append(printed, ConflictLines(new_pub,
                                  existing_data[matching_existing_pub], "S"))
    /\ UNCHANGED <<fpvars, simvars, purevars, srcvars>>

\* choice == 'S': skip / ignore
ChooseSkip ==
    /\ pc = "prompt"
    /\ choice' = "S"
    /\ pc' = "loop" /\ n' = n + 1
    /\ UNCHANGED <<existing_data, scraped_data, total_entries, existing_raw_urls,
                   new_entries_added, matching_existing_pub, run, first_result,
                   all_skip>>
    /\ printed' = Append(printed, ConflictLines(new_pub,
                                  existing_data[matching_existing_pub], "S"))
    /\ UNCHANGED <<fpvars, simvars, purevars, srcvars>>

\* anything else: "Invalid input", prompt again
InvalidInput_Advances ==
    /\ pc = "prompt"
    /\ choice' = "X"
    /\ pc' = "loop" /\ n' = n + 1
    /\ UNCHANGED <<existing_data, scraped_data, total_entries, existing_raw_urls,
                   new_entries_added, matching_existing_pub, run,
                   first_result, all_skip>>
    /\ UNCHANGED printed
    /\ UNCHANGED <<fpvars, simvars, purevars, srcvars>>

InvalidInput ==
    /\ pc = "prompt"
    /\ choice' = "X"
    /\ UNCHANGED <<existing_data, scraped_data, total_entries, existing_raw_urls,
                   new_entries_added, n, matching_existing_pub, pc, run,
                   first_result, all_skip>>
    /\ UNCHANGED printed
    /\ UNCHANGED <<fpvars, simvars, purevars, srcvars>>

\* end of the for loop: return total_entries
ReturnTotal ==
    /\ pc = "loop" /\ n > Len(scraped_data)
    /\ pc' = "done"
    /\ first_result' = IF run = 1 THEN total_entries ELSE first_result
    /\ UNCHANGED <<existing_data, scraped_data, total_entries, existing_raw_urls,
                   new_entries_added, n, matching_existing_pub, choice, run,
                   all_skip>>
    /\ UNCHANGED printed
    /\ UNCHANGED <<fpvars, simvars, purevars, srcvars>>

\* process_data called again on what the first call returned, same scraped_data
RerunPD ==
    /\ pc = "done" /\ run = 1
    /\ existing_data' = total_entries
    /\ total_entries' = total_entries
    /\ existing_raw_urls' = { total_entries[k].raw_url : k \in DOMAIN total_entries }
    /\ new_entries_added' = 0
    /\ n' = 1
    /\ matching_existing_pub' = 0
    /\ choice' = ""
    /\ pc' = "loop"
    /\ run' = 2
    /\ printed' = <<>>
    /\ UNCHANGED <<scraped_data, first_result, all_skip>>
    /\ UNCHANGED <<fpvars, simvars, purevars, srcvars>>

FPIdle ==
    /\ version = "main" /\ df = <<>> /\ i = 0 /\ j = 0 /\ fp_choice = ""
    /\ merged_row = <<>> /\ col = 0 /\ sel = <<>> /\ fp_pc = "idle"
    /\ output = <<>> /\ fp_run = 0 /\ first_output = <<>> /\ fp_all_skip = TRUE
    /\ fp_printed = <<>>

SimIdle ==
    /\ sim_a = <<>> /\ sim_b = <<>> /\ sim_ab = <<0, 0>> /\ sim_ba = <<0, 0>>
    /\ sim_pc = "idle"

InitPD ==
    /\ \E existing \in SeqsUpTo(ExistingPubs, MaxExisting),
          scraped  \in SeqsUpTo(ScrapedPubs, MaxScraped) :
            StartPD(existing, scraped, 1)
    /\ first_result = <<>> /\ all_skip = TRUE
    /\ FPIdle /\ SimIdle /\ PureIdle /\ SrcIdle

NextPD ==
    \/ SkipDirectDuplicate
    \/ DetectConflict
    \/ AddNewEntry
    \/ ChooseKeepExisting
    \/ ChooseKeepNew
    \/ ChooseKeepBoth
    \/ ChooseSkip
    \/ InvalidInput
    \/ ReturnTotal

SpecPD == InitPD /\ [][NextPD]_vars

(***************************************************************************)
(* find_pubdup.py: text utilities                                          *)
(***************************************************************************)
URL_COL == "url"
Columns == <<"url", "published_year", "__url_norm">>   \* df.columns, in order
IsInternal(c) == c = "__url_norm"                        \* col.startswith("__")
DataColumns == SelectSeq(Columns, LAMBDA c : ~IsInternal(c))

\* pd.isna(value)
IsNa(value) == value = NaN
\* str(value) of a cell
Str(value) == IF IsNa(value) THEN <<"n","a","n">> ELSE value

\* position of the first character c in s at or after position p, 0 if none
FirstAt(s, c, p) ==
    LET hits == { k \in p..Len(s) : s[k] = c }
    IN  IF hits = {} THEN 0 ELSE CHOOSE k \in hits : \A m \in hits : k <= m

HrefPrefix == <<"h","r","e","f","=",Q>>

\* re.search(r'href="([^"]+)"', text): group(1) of the leftmost match, "" if none
HrefGroup(text) ==
    LET starts == { p \in 1..Len(text) :
                      /\ p + 6 <= Len(text)
                      /\ SubSeq(text, p, p + 5) = HrefPrefix
                      /\ text[p + 6] # Q
                      /\ FirstAt(text, Q, p + 7) # 0 }
    IN  IF starts = {} THEN <<>>
        ELSE LET p == CHOOSE x \in starts : \A y \in starts : x <= y
             IN  SubSeq(text, p + 6, FirstAt(text, Q, p + 7) - 1)

\* re.sub(r"<[^>]+>", "", text)
RECURSIVE RemoveTags(_)
RemoveTags(text) ==
    IF text = <<>> THEN <<>>
    ELSE IF /\ Head(text) = "<"
            /\ Len(text) >= 3
            /\ text[2] # ">"
            /\ FirstAt(text, ">", 3) # 0
         THEN RemoveTags(SubSeq(text, FirstAt(text, ">", 3) + 1, Len(text)))
         ELSE <<Head(text)>> \o RemoveTags(Tail(text))

\* extract_href_and_text: <<href, visible>>
extract_href_and_text(url_html) ==
    IF IsNa(url_html) THEN << <<>>, <<>> >>
    ELSE << HrefGroup(url_html), Strip(RemoveTags(url_html)) >>

IsKeyChar(c) == c \in Range(LowerChars) \cup Range(DigitChars) \cup {" "}

\* extract_combined_url_text: lowercase "href visible", other characters -> space
extract_combined_url_text(url_html) ==
    LET hv       == extract_href_and_text(url_html)
        combined == Lower(hv[1] \o <<" ">> \o hv[2])
    IN  [k \in DOMAIN combined |->
            IF IsKeyChar(combined[k]) THEN combined[k] ELSE " "]

(***************************************************************************)
(* similarity: difflib.SequenceMatcher(None, a, b).ratio()                 *)
(* (texts shorter than 200 characters: no autojunk, no junk)               *)
(***************************************************************************)
\* length of the common run of a[x+1..ahi] and b[y+1..bhi] (0-based x, y)
RECURSIVE RunLen(_, _, _, _, _, _)
RunLen(a, b, x, ahi, y, bhi) ==
    IF x < ahi /\ y < bhi /\ a[x + 1] = b[y + 1]
    THEN 1 + RunLen(a, b, x + 1, ahi, y + 1, bhi)
    ELSE 0

\* which of two equally long blocks find_longest_match prefers:
\* the one starting earliest in a, then earliest in b
BlockBefore(p, q) == p[1] < q[1] \/ (p[1] = q[1] /\ p[2] <= q[2])

\* find_longest_match(alo, ahi, blo, bhi) -> <<i, j, size>>
find_longest_match(a, b, alo, ahi, blo, bhi) ==
    LET pairs == { <<x, y>> : x \in alo..(ahi - 1), y \in blo..(bhi - 1) }
        size  == [p \in pairs |-> RunLen(a, b, p[1], ahi, p[2], bhi)]
        sizes == { size[p] : p \in pairs }
        best  == IF pairs = {} THEN 0
                 ELSE CHOOSE v \in sizes : \A w \in sizes : v >= w
        tops  == { p \in pairs : size[p] = best }
    IN  IF best = 0 THEN <<alo, blo, 0>>
        ELSE LET p == CHOOSE p \in tops : \A q \in tops : BlockBefore(p, q)
             IN  <<p[1], p[2], best>>

\* sum of the sizes of get_matching_blocks() inside a[alo:ahi], b[blo:bhi]
RECURSIVE MatchCount(_, _, _, _, _, _)
MatchCount(a, b, alo, ahi, blo, bhi) ==
    LET m == find_longest_match(a, b, alo, ahi, blo, bhi)
    IN  IF m[3] = 0 THEN 0
        ELSE m[3]
             + (IF alo < m[1] /\ blo < m[2]
                THEN MatchCount(a, b, alo, m[1], blo, m[2]) ELSE 0)
             + (IF m[1] + m[3] < ahi /\ m[2] + m[3] < bhi
                THEN MatchCount(a, b, m[1] + m[3], ahi, m[2] + m[3], bhi) ELSE 0)

\* similarity(a, b): the ratio 2.0 * matches / length as the fraction <<num, den>>;
\* 1.0 when both texts are empty
similarity(a, b) ==
    LET sa == Str(a)
        sb == Str(b)
    IN  IF Len(sa) + Len(sb) = 0 THEN <<1, 1>>
        ELSE << 2 * MatchCount(sa, sb, 0, Len(sa), 0, Len(sb)), Len(sa) + Len(sb) >>

\* SIMILARITY_THRESHOLD = 0.7 as the fraction 7/10
ThresholdNum == 7
ThresholdDen == 10

\* variant: strict comparison
AtOrAboveThreshold_Strict(r) == r[1] * 10 > 7 * r[2]

\* url_sim >= SIMILARITY_THRESHOLD; the float quotient 2.0 * M / T and the
\* literal 0.7 are both correctly rounded, so for texts of this size the float
\* comparison agrees with the comparison of the fractions
AtOrAboveThreshold(r) == r[1] * ThresholdDen >= ThresholdNum * r[2]

\* inputs of the pure-function check
SimChars == { "a", "b", " " }

InitSim ==
    /\ sim_a \in SeqsUpTo(SimChars, MaxSimLen)
    /\ sim_b \in SeqsUpTo(SimChars, MaxSimLen)
    /\ sim_ab = <<0, 0>> /\ sim_ba = <<0, 0>>
    /\ sim_pc = "start"
    /\ PDIdle /\ FPIdle /\ PureIdle /\ SrcIdle

ComputeSimilarity ==
    /\ sim_pc = "start"
    /\ sim_ab' = similarity(sim_a, sim_b)
    /\ sim_ba' = similarity(sim_b, sim_a)
    /\ sim_pc' = "done"
    /\ UNCHANGED <<sim_a, sim_b, pdvars, fpvars, purevars, srcvars>>

NextSim == ComputeSimilarity

SpecSim == InitSim /\ [][NextSim]_vars

(***************************************************************************)
(* find_pubdup.py: smart_cast                                              *)
(***************************************************************************)
IsDigits(s) == s # <<>> /\ \A k \in DOMAIN s : IsDigit(s[k])
IsZeros(s)  == s # <<>> /\ \A k \in DOMAIN s : s[k] = "0"

\* the text splits as digits "." digits
DotAt(s) == FirstAt(s, ".", 1)
IntPart(s)  == SubSeq(s, 1, DotAt(s) - 1)
FracPart(s) == SubSeq(s, DotAt(s) + 1, Len(s))
\* re.fullmatch(r"\d+\.\d+", s)
LooksFloat(s) == DotAt(s) # 0 /\ IsDigits(IntPart(s)) /\ IsDigits(FracPart(s))
\* re.fullmatch(r"\d+\.0+", s)
LooksWholeFloat(s) == DotAt(s) # 0 /\ IsDigits(IntPart(s)) /\ IsZeros(FracPart(s))

\* str(int(d)) for a digit text d: no leading zeros
RECURSIVE IntStr(_)
IntStr(d) == IF Len(d) > 1 /\ Head(d) = "0" THEN IntStr(Tail(d)) ELSE d

\* s.rstrip(c)
RECURSIVE RStripChar(_, _)
RStripChar(s, c) == IF s # <<>> /\ s[Len(s)] = c
                    THEN RStripChar(SubSeq(s, 1, Len(s) - 1), c) ELSE s

\* number of leading "0" of a digit text
RECURSIVE LeadingZeros(_)
LeadingZeros(d) == IF d # <<>> /\ Head(d) = "0" THEN 1 + LeadingZeros(Tail(d)) ELSE 0

\* the exponent of repr(float), at least two digits
ExponentStr(e) == <<DigitChars[(e \div 10) + 1], DigitChars[(e % 10) + 1]>>

\* str(float(s)) for s matching \d+\.\d+, in the three cases the inputs reach:
\*  - below 0.0001: exponent notation, d[.ddd]e-XX
\*  - a one-digit integer part plus exactly 1e-16: float() rounds to the integer
\*    (half an ulp of a double in [1, 10) is at least 1.1e-16)
\*  - at most 15 significant digits: the decimal text, no rounding
FloatStr(s) ==
    LET int  == IntStr(IntPart(s))
        frac == RStripChar(FracPart(s), "0")
        z    == LeadingZeros(frac)
        sig  == SubSeq(frac, z + 1, Len(frac))
    IN  CASE int = <<"0">> /\ frac # <<>> /\ z >= 4 /\ Len(sig) <= 15 /\ z + 1 <= 99 ->
               <<Head(sig)>>
                 \o (IF Len(sig) > 1 THEN <<".">> \o Tail(sig) ELSE <<>>)
                 \o <<"e", "-">> \o ExponentStr(z + 1)
          [] int # <<"0">> /\ Len(int) = 1 /\ z = 15 /\ sig = <<"1">> ->
               int \o <<".", "0">>
          [] ~(int = <<"0">> /\ z >= 4) /\ Len(int) + Len(frac) <= 15 ->
               int \o <<".">> \o (IF frac = <<>> THEN <<"0">> ELSE frac)

\* smart_cast of src/find_pubdup.py
smart_cast_main(value) ==
    IF IsNa(value) THEN <<>>
    ELSE LET s == Strip(Str(value))
         IN  IF LooksWholeFloat(s) THEN IntStr(IntPart(s))
             ELSE IF LooksFloat(s) THEN FloatStr(s)
             ELSE s

\* smart_cast of src/functional_version/find_pubdup.py
smart_cast_functional(value) ==
    IF IsNa(value) THEN <<>>
    ELSE LET s == Strip(Str(value))
         IN  IF LooksWholeFloat(s) THEN IntStr(IntPart(s))
             ELSE IF LooksFloat(s) THEN RStripChar(RStripChar(FloatStr(s), "0"), ".")
             ELSE s

smart_cast(value) ==
    IF version = "main" THEN smart_cast_main(value) ELSE smart_cast_functional(value)

(***************************************************************************)
(* find_pubdup.py: main                                                    *)
(***************************************************************************)
Anchor(href, text) ==
    <<"<","a"," ">> \o HrefPrefix \o href \o <<Q, ">">> \o text \o <<"<","/","a",">">>

\* cells the input table is drawn from
UrlCells ==
    { Anchor(<<"u">>, <<"A","b","c","d","e","f","g","h">>),
      Anchor(<<"u">>, <<"a","b","c","d","e","x","y","z">>),
      Anchor(<<"u">>, <<"a","b","c","d","w","x","y","z">>) }
YearCells == { <<"2","0","1","5",".","0">>, NaN }
\* answers to "Choose (1/2/custom)", after .strip()
SelInputs == { <<"1">>, <<"2">>, <<"7",".","5","0">> }

\* a row as read from the CSV, before the key column is added
InputRows == { [c \in Range(DataColumns) |->
                   IF c = URL_COL THEN u ELSE y] : u \in UrlCells, y \in YearCells }

\* df["__url_norm"] = df[URL_COL].apply(extract_combined_url_text).astype(str)
WithKey(row) ==
    [c \in Range(Columns) |->
        IF IsInternal(c) THEN extract_combined_url_text(row[URL_COL]) ELSE row[c]]

\* variant: "2" keeps row i's value
MergeChoice_FirstWins(v1, v2, s) ==
    IF s = <<"1">> THEN v1
    ELSE IF s = <<"2">> THEN v1
    ELSE s

\* the choice a merge makes for one differing column
MergeChoice(v1, v2, s) ==
    IF s = <<"1">> THEN v1
    ELSE IF s = <<"2">> THEN v2
    ELSE s

\* for k, v in merged_row.items(): df.at[i, k] = v
WriteMerged(row, merged) ==
    [c \in DOMAIN row |-> IF c \in DOMAIN merged THEN merged[c] ELSE row[c]]

\* variant: the last row is dropped instead of row k
DropRow_Last(rows, k) == SubSeq(rows, 1, Len(rows) - 1)

\* df.drop(index=j).reset_index(drop=True)
DropRow(rows, k) == SubSeq(rows, 1, k - 1) \o SubSeq(rows, k + 1, Len(rows))

\* variant: the key of the merged row is left as it was
RefreshKey_Stale(row) == row

\* df.at[i, "__url_norm"] = extract_combined_url_text(df.loc[i, URL_COL])
RefreshKey(row) ==
    [row EXCEPT !["__url_norm"] = extract_combined_url_text(row[URL_COL])]

\* df[[c for c in df.columns if not c.startswith("__")]]
DataOnly(row) == [c \in Range(DataColumns) |-> row[c]]

\* clean_dataframe (functional version): smart_cast on every cell
clean_row(row) == [c \in DOMAIN row |-> smart_cast_functional(row[c])]

\* to_csv writes a missing cell as an empty field; read_csv reads an empty
\* field as missing
ToCsvField(v)   == IF IsNa(v) THEN <<>> ELSE v
FromCsvField(f) == IF f = <<>> THEN NaN ELSE f
ToCsvRow(row)   == [c \in DOMAIN row |-> ToCsvField(row[c])]
FromCsvRow(row) == [c \in DOMAIN row |-> FromCsvField(row[c])]

\* what main writes to OUTPUT_FILE
WrittenRows(rows) ==
    [k \in DOMAIN rows |->
        ToCsvRow(IF version = "main" THEN DataOnly(rows[k])
                 ELSE clean_row(DataOnly(rows[k])))]

EmptyDict == [c \in {} |-> <<>>]

InitFP ==
    /\ version \in { "main", "functional" }
    /\ \E rows \in SeqsUpTo(InputRows, MaxRows) :
          df = [k \in DOMAIN rows |-> WithKey(rows[k])]
    /\ i = 1 /\ j = 2
    /\ fp_choice = "" /\ merged_row = EmptyDict /\ col = 0 /\ sel = <<>>
    /\ fp_pc = "scan"
    /\ output = <<>> /\ fp_run = 1 /\ first_output = <<>> /\ fp_all_skip = TRUE
    /\ fp_printed = <<>>
    /\ PDIdle /\ SimIdle /\ PureIdle /\ SrcIdle

\* print_full_entry(df, i), print_full_entry(df, j) and the answer read after
\* them: the url cells of the two rows as printed
PairLines(row1, row2, answer) ==
    [ first |-> row1[URL_COL], second |-> row2[URL_COL], answer |-> answer ]

url_sim == similarity(df[i]["__url_norm"], df[j]["__url_norm"])

\* the pair scores at or above the threshold: it is printed and the prompt shown
PresentPair ==
    /\ fp_pc = "scan" /\ i <= Len(df) /\ j <= Len(df)
    /\ AtOrAboveThreshold(url_sim)
    /\ fp_pc' = "ask"
    /\ UNCHANGED <<version, df, i, j, fp_choice, merged_row, col, sel, output,
                   fp_run, first_output, fp_all_skip>>
    /\ UNCHANGED fp_printed
    /\ UNCHANGED <<pdvars, simvars, purevars, srcvars>>

\* the pair scores below the threshold: j += 1
PassPair ==
    /\ fp_pc = "scan" /\ i <= Len(df) /\ j <= Len(df)
    /\ ~AtOrAboveThreshold(url_sim)
    /\ j' = j + 1
    /\ UNCHANGED <<version, df, i, fp_choice, merged_row, col, sel, fp_pc, output,
                   fp_run, first_output, fp_all_skip>>
    /\ UNCHANGED fp_printed
    /\ UNCHANGED <<pdvars, simvars, purevars, srcvars>>

\* end of the inner loop: i += 1, j = i + 1
NextRow ==
    /\ fp_pc = "scan" /\ i <= Len(df) /\ j > Len(df)
    /\ i' = i + 1 /\ j' = i + 2
    /\ UNCHANGED <<version, df, fp_choice, merged_row, col, sel, fp_pc, output,
                   fp_run, first_output, fp_all_skip>>
    /\ UNCHANGED fp_printed
    /\ UNCHANGED <<pdvars, simvars, purevars, srcvars>>

\* choice == "y": start building merged_row
AnswerMerge ==
    /\ fp_pc = "ask"
    /\ fp_choice' = "y"
    /\ merged_row' = EmptyDict
    /\ col' = 1
    /\ fp_pc' = "merge"
    /\ fp_all_skip' = FALSE
    /\ UNCHANGED <<version, df, i, j, sel, output, fp_run, first_output>>
    /\ fp_printed' = Append(fp_printed, PairLines(df[i], df[j], "y"))
    /\ UNCHANGED <<pdvars, simvars, purevars, srcvars>>

\* choice == "k": keep both, j += 1
AnswerKeepBoth ==
    /\ fp_pc = "ask"
    /\ fp_choice' = "k"
    /\ j' = j + 1
    /\ fp_pc' = "scan"
    /\ fp_all_skip' = FALSE
    /\ UNCHANGED <<version, df, i, merged_row, col, sel, output, fp_run,
                   first_output>>
    /\ fp_printed' = Append(fp_printed, PairLines(df[i], df[j], "k"))
    /\ UNCHANGED <<pdvars, simvars, purevars, srcvars>>

\* variant: a skipped pair is compared again
AnswerSkip_Stays ==
    /\ fp_pc = "ask"
    /\ fp_choice' = "s"
    /\ fp_pc' = "scan"
    /\ UNCHANGED <<version, df, i, j, merged_row, col, sel, output, fp_run,
                   first_output, fp_all_skip>>
    /\ fp_printed' = Append(fp_printed, PairLines(df[i], df[j], "s"))
    /\ UNCHANGED <<pdvars, simvars, purevars, srcvars>>

\* any other answer: skipped, j += 1
AnswerSkip ==
    /\ fp_pc = "ask"
    /\ fp_choice' = "s"
    /\ j' = j + 1
    /\ fp_pc' = "scan"
    /\ UNCHANGED <<version, df, i, merged_row, col, sel, output, fp_run,
                   first_output, fp_all_skip>>
    /\ fp_printed' = Append(fp_printed, PairLines(df[i], df[j], "s"))
    /\ UNCHANGED <<pdvars, simvars, purevars, srcvars>>

val1 == Str(df[i][Columns[col]])
val2 == Str(df[j][Columns[col]])

\* column loop of the merge: an internal column is passed over
MergeSkipInternal ==
    /\ fp_pc = "merge" /\ col <= Len(Columns)
    /\ IsInternal(Columns[col])
    /\ col' = col + 1
    /\ UNCHANGED <<version, df, i, j, fp_choice, merged_row, sel, fp_pc, output,
                   fp_run, first_output, fp_all_skip>>
    /\ UNCHANGED fp_printed
    /\ UNCHANGED <<pdvars, simvars, purevars, srcvars>>

\* column loop of the merge: val1 == val2
MergeEqualColumn ==
    /\ fp_pc = "merge" /\ col <= Len(Columns)
    /\ ~IsInternal(Columns[col])
    /\ val1 = val2
    /\ merged_row' = (Columns[col] :> smart_cast(val1)) @@ merged_row
    /\ col' = col + 1
    /\ UNCHANGED <<version, df, i, j, fp_choice, sel, fp_pc, output, fp_run,
                   first_output, fp_all_skip>>
    /\ UNCHANGED fp_printed
    /\ UNCHANGED <<pdvars, simvars, purevars, srcvars>>

\* variant: the chosen value is written to row i at once
MergeChooseColumn_WritesThrough ==
    /\ fp_pc = "merge" /\ col <= Len(Columns)
    /\ ~IsInternal(Columns[col])
    /\ val1 # val2
    /\ \E s \in SelInputs :
          /\ sel' = s
          /\ merged_row' =
               (Columns[col] :> smart_cast(MergeChoice(val1, val2, s))) @@ merged_row
          /\ df' = [df EXCEPT ![i][Columns[col]] = smart_cast(MergeChoice(val1, val2, s))]
    /\ col' = col + 1
    /\ UNCHANGED <<version, i, j, fp_choice, fp_pc, output, fp_run,
                   first_output, fp_all_skip>>
    /\ UNCHANGED fp_printed
    /\ UNCHANGED <<pdvars, simvars, purevars, srcvars>>

\* column loop of the merge: the values differ, "Choose (1/2/custom)"
MergeChooseColumn ==
    /\ fp_pc = "merge" /\ col <= Len(Columns)
    /\ ~IsInternal(Columns[col])
    /\ val1 # val2
    /\ \E s \in SelInputs :
          /\ sel' = s
          /\ merged_row' =
               (Columns[col] :> smart_cast(MergeChoice(val1, val2, s))) @@ merged_row
    /\ col' = col + 1
    /\ UNCHANGED <<version, df, i, j, fp_choice, fp_pc, output, fp_run,
                   first_output, fp_all_skip>>
    /\ UNCHANGED fp_printed
    /\ UNCHANGED <<pdvars, simvars, purevars, srcvars>>

\* the merged row is written to row i, row j dropped, the key of row i refreshed;
\* "continue": j is not advanced
ApplyMerge ==
    /\ fp_pc = "merge" /\ col > Len(Columns)
    /\ LET written == [df EXCEPT ![i] = WriteMerged(df[i], merged_row)]
           dropped == DropRow(written, j)
       IN  df' = [dropped EXCEPT ![i] = RefreshKey(dropped[i])]
    /\ fp_pc' = "scan"
    /\ UNCHANGED <<version, i, j, fp_choice, merged_row, col, sel, output, fp_run,
                   first_output, fp_all_skip>>
    /\ UNCHANGED fp_printed
    /\ UNCHANGED <<pdvars, simvars, purevars, srcvars>>

\* end of the outer loop: the table is written
WriteOutput ==
    /\ fp_pc = "scan" /\ i > Len(df)
    /\ output' = WrittenRows(df)
    /\ first_output' = IF fp_run = 1 THEN WrittenRows(df) ELSE first_output
    /\ fp_pc' = "done"
    /\ UNCHANGED <<version, df, i, j, fp_choice, merged_row, col, sel, fp_run,
                   fp_all_skip>>
    /\ UNCHANGED fp_printed
    /\ UNCHANGED <<pdvars, simvars, purevars, srcvars>>

\* main run again on the file the first run wrote
RerunFP ==
    /\ fp_pc = "done" /\ fp_run = 1
    /\ df' = [k \in DOMAIN output |-> WithKey(FromCsvRow(output[k]))]
    /\ i' = 1 /\ j' = 2
    /\ fp_choice' = "" /\ merged_row' = EmptyDict /\ col' = 0 /\ sel' = <<>>
    /\ fp_pc' = "scan"
    /\ fp_run' = 2
    /\ UNCHANGED <<version, output, first_output, fp_all_skip>>
    /\ fp_printed' = <<>>
    /\ UNCHANGED <<pdvars, simvars, purevars, srcvars>>

NextFP ==
    \/ PresentPair
    \/ PassPair
    \/ NextRow
    \/ AnswerMerge
    \/ AnswerKeepBoth
    \/ AnswerSkip
    \/ MergeSkipInternal
    \/ MergeEqualColumn
    \/ MergeChooseColumn
    \/ ApplyMerge
    \/ WriteOutput

SpecFP == InitFP /\ [][NextFP]_vars

\* the control flow of main: from every point of the two loops the next
\* point is reached (the comparison gives one of its two results, a prompt
\* is answered, a column is handled, the merge is applied, the file written)
fp_control == <<fp_pc, i, j, col>>
MainAdvances ==
    \/ /\ fp_pc = "scan" /\ i <= Len(df) /\ j <= Len(df)
       /\ i' = i /\ col' = col
       /\ \/ fp_pc' = "ask" /\ j' = j
          \/ fp_pc' = "scan" /\ j' = j + 1
    \/ /\ fp_pc = "scan" /\ i <= Len(df) /\ j > Len(df)
       /\ fp_pc' = "scan" /\ i' = i + 1 /\ j' = i + 2 /\ col' = col
    \/ /\ fp_pc = "scan" /\ i > Len(df)
       /\ fp_pc' = "done" /\ i' = i /\ j' = j /\ col' = col
    \/ /\ fp_pc = "ask" /\ i' = i
       /\ \/ fp_pc' = "merge" /\ col' = 1 /\ j' = j
          \/ fp_pc' = "scan" /\ j' = j + 1 /\ col' = col
    \/ /\ fp_pc = "merge" /\ col <= Len(Columns)
       /\ fp_pc' = "merge" /\ col' = col + 1 /\ i' = i /\ j' = j
    \/ /\ fp_pc = "merge" /\ col > Len(Columns)
       /\ fp_pc' = "scan" /\ i' = i /\ j' = j /\ col' = col

\* the pass as it runs: main is sequential code and every prompt is answered,
\* so its control does not stop before the end
SpecFPLive == InitFP /\ [][NextFP]_vars /\ WF_fp_control(MainAdvances)

(***************************************************************************)
(* Both reconciliation passes, each optionally run a second time on its    *)
(* own result                                                              *)
(***************************************************************************)
Init == InitPD \/ InitFP

Next ==
    \/ NextPD
    \/ RerunPD
    \/ NextFP
    \/ RerunFP

Spec == Init /\ [][Next]_vars

(***************************************************************************)
(* smart_cast as a pure function, applied once and twice                   *)
(***************************************************************************)
MaxCastLen == 4
CastChars == { "0", "1", "5", ".", " " }
LongCastInputs ==
    { <<"1",".","0","0","0","0","0","0","0","0","0","0","0","0","0","0","0","1">>,
      <<"0",".","0","0","0","0","1">>,
      <<"0",".","0","0","0","0","0","0","0","0","0","1">>,
      <<"2","0","1","5",".","0">>,
      NaN }

InitCast ==
    /\ pure_in \in SeqsUpTo(CastChars, MaxCastLen) \cup LongCastInputs
    /\ pure_out = <<>>
    /\ pure_pc = "cast"
    /\ PDIdle /\ FPIdle /\ SimIdle /\ SrcIdle

ApplySmartCast ==
    /\ pure_pc = "cast"
    /\ pure_out' = [ main        |-> smart_cast_main(pure_in),
                     main2       |-> smart_cast_main(smart_cast_main(pure_in)),
                     functional  |-> smart_cast_functional(pure_in),
                     functional2 |-> smart_cast_functional(smart_cast_functional(pure_in)) ]
    /\ pure_pc' = "cast_done"
    /\ UNCHANGED <<pure_in, pdvars, fpvars, simvars, srcvars>>

NextCast == ApplySmartCast

SpecCast == InitCast /\ [][NextCast]_vars

(***************************************************************************)
(* normalize_title of find_duplicates.py and of academic_commons_scraper.py *)
(* as pure functions of a title and of a variant of that title             *)
(***************************************************************************)
MaxTitleLen == 3

\* \w on the characters of the model: letters, digits and the underscore
IsWordChar(c) == IsAlnum(c) \/ c = "_"

\* re.sub(r'\s+', ' ', s): every run of whitespace becomes one space
RECURSIVE CollapseSpaces(_)
CollapseSpaces(s) ==
    IF s = <<>> THEN <<>>
    ELSE IF IsSpace(Head(s))
         THEN <<" ">> \o CollapseSpaces(LStrip(s))
         ELSE <<Head(s)>> \o CollapseSpaces(Tail(s))

\* find_duplicates.normalize_title: lower(), re.sub(r'[^\w\s]', '', .),
\* re.sub(r'\s+', ' ', .).strip()
find_duplicates_normalize_title(title) ==
    Strip(CollapseSpaces(
        SelectSeq(Lower(title), LAMBDA c : IsWordChar(c) \/ IsSpace(c))))

TitleChars == { "A", "a", "1", " ", "\t", "-", "_" }
PunctChars == { "-", "_" }

InsertAt(s, k, c) == SubSeq(s, 1, k) \o <<c>> \o SubSeq(s, k + 1, Len(s))

\* titles that differ from t only by the case of a letter, by a punctuation
\* character, or by the amount of whitespace
TitleVariants(t) ==
    { [t EXCEPT ![k] = LowerChar(t[k])] : k \in DOMAIN t }
      \cup { InsertAt(t, k, p) : k \in 0..Len(t), p \in PunctChars }
      \cup { InsertAt(t, k, " ") :
               k \in { m \in 0..Len(t) :
                         \/ m \in { 0, Len(t) }
                         \/ IsSpace(t[m])
                         \/ IsSpace(t[m + 1]) } }
      \cup { t }

InitNorm ==
    /\ \E t \in SeqsUpTo(TitleChars, MaxTitleLen) :
         \E u \in TitleVariants(t) : pure_in = <<t, u>>
    /\ pure_out = <<>>
    /\ pure_pc = "norm"
    /\ PDIdle /\ FPIdle /\ SimIdle /\ SrcIdle

ApplyNormalizeTitle ==
    /\ pure_pc = "norm"
    /\ pure_out' = [ fd       |-> find_duplicates_normalize_title(pure_in[1]),
                     fd_var   |-> find_duplicates_normalize_title(pure_in[2]),
                     scr      |-> normalize_title(pure_in[1]),
                     scr_var  |-> normalize_title(pure_in[2]) ]
    /\ pure_pc' = "norm_done"
    /\ UNCHANGED <<pure_in, pdvars, fpvars, simvars, srcvars>>

NextNorm == ApplyNormalizeTitle

SpecNorm == InitNorm /\ [][NextNorm]_vars

(***************************************************************************)
(* The anchor extractors as pure functions of a publication link field:    *)
(* find_pubdup.extract_href_and_text, find_duplicates.extract_link_info,   *)
(* combine_csv.extract_publication_title_from_url                          *)
(***************************************************************************)
MaxHrefLen == 2
MaxTextLen == 2

\* position of the first occurrence of the text w in s at or after p, 0 if none
FindAt(s, w, p) ==
    LET hits == { k \in p..(Len(s) - Len(w) + 1) : SubSeq(s, k, k + Len(w) - 1) = w }
    IN  IF hits = {} THEN 0 ELSE CHOOSE k \in hits : \A m \in hits : k <= m

AnchorOpen  == <<"<","a"," ","h","r","e","f","=">>
AnchorClose == <<"<","/","a",">">>

\* the character class [\"|\'] of extract_link_info
IsLinkQuote(c) == c \in { Q, "|", "'" }

\* re.search(r'<a href=[\"|\'](.*?)[\"|\']>(.*?)</a>', value): the match as
\* <<start of group 1, end of group 1, end of group 2>>, <<0, 0, 0>> if none.
\* Both groups are lazy and "." matches no newline.
LinkMatch(value) ==
    LET NoNewline(a, b) == \A k \in a..b : value[k] # "\n"
        \* ends e of group 1 for a match starting at p
        ends(p) == { e \in (p + 8)..(Len(value) - 2) :
                       /\ IsLinkQuote(value[e + 1]) /\ value[e + 2] = ">"
                       /\ NoNewline(p + 9, e)
                       /\ FindAt(value, AnchorClose, e + 3) # 0
                       /\ NoNewline(e + 3, FindAt(value, AnchorClose, e + 3) - 1) }
        starts == { p \in 1..Len(value) :
                       /\ p + 8 <= Len(value)
                       /\ SubSeq(value, p, p + 7) = AnchorOpen
                       /\ IsLinkQuote(value[p + 8])
                       /\ ends(p) # {} }
    IN  IF starts = {} THEN <<0, 0, 0>>
        ELSE LET p == CHOOSE x \in starts : \A y \in starts : x <= y
                 e == CHOOSE x \in ends(p) : \A y \in ends(p) : x <= y
             IN  <<p + 9, e, FindAt(value, AnchorClose, e + 3) - 1>>

\* extract_link_info of find_duplicates.py: <<title, url>>
extract_link_info(link_column_value) ==
    LET m == LinkMatch(link_column_value)
    IN  IF m # <<0, 0, 0>>
        THEN << Strip(SubSeq(link_column_value, m[2] + 3, m[3])),
                Strip(SubSeq(link_column_value, m[1], m[2])) >>
        ELSE << Strip(link_column_value), <<"#">> >>

\* anchor_tag.replace('""', '"')
RECURSIVE UndoubleQuotes(_)
UndoubleQuotes(s) ==
    IF Len(s) >= 2 /\ s[1] = Q /\ s[2] = Q
    THEN <<Q>> \o UndoubleQuotes(SubSeq(s, 3, Len(s)))
    ELSE IF s = <<>> THEN <<>>
    ELSE <<Head(s)>> \o UndoubleQuotes(Tail(s))

\* extract_publication_title_from_url:
\* re.search(r'<a\s+[^>]*>([^<]+)</a>', anchor_tag.replace('""', '"'))
extract_publication_title_from_url(anchor_tag) ==
    LET s == UndoubleQuotes(anchor_tag)
        \* for a match starting at p: the ">" that ends the tag, the "<" that
        \* ends the title
        gt(p) == FirstAt(s, ">", p + 3)
        lt(p) == FirstAt(s, "<", gt(p) + 1)
        starts == { p \in 1..Len(s) :
                      /\ p + 2 <= Len(s)
                      /\ s[p] = "<" /\ s[p + 1] = "a" /\ IsSpace(s[p + 2])
                      /\ gt(p) # 0
                      /\ lt(p) > gt(p) + 1
                      /\ FindAt(s, AnchorClose, lt(p)) = lt(p) }
    IN  IF starts = {} THEN <<>>
        ELSE LET p == CHOOSE x \in starts : \A y \in starts : x <= y
             IN  Strip(SubSeq(s, gt(p) + 1, lt(p) - 1))

\* the quoting conventions of a link field
QuoteStyles == { "single", "double", "doubled" }
QuoteOf(style) ==
    CASE style = "single"  -> <<"'">>
      [] style = "double"  -> <<Q>>
      [] style = "doubled" -> <<Q, Q>>

\* <a href=QhrefQ>text</a> with the quotes of the style
QuotedAnchor(style, href, text) ==
    AnchorOpen \o QuoteOf(style) \o href \o QuoteOf(style) \o <<">">>
      \o text \o AnchorClose

HrefChars == { "u", "/" }
TextChars == { "T", " " }

InitAnchor ==
    /\ \E style \in QuoteStyles :
         \E href \in SeqsUpTo(HrefChars, MaxHrefLen) \ { <<>> } :
           \E text \in SeqsUpTo(TextChars, MaxTextLen) \ { <<>> } :
             pure_in = [ style |-> style, href |-> href, text |-> text ]
    /\ pure_out = <<>>
    /\ pure_pc = "anchor"
    /\ PDIdle /\ FPIdle /\ SimIdle /\ SrcIdle

ApplyExtractors ==
    /\ pure_pc = "anchor"
    /\ LET field == QuotedAnchor(pure_in.style, pure_in.href, pure_in.text)
       IN  pure_out' =
             [ href_and_text |-> extract_href_and_text(field),
               link_info     |-> extract_link_info(field),
               title         |-> extract_publication_title_from_url(field) ]
    /\ pure_pc' = "anchor_done"
    /\ UNCHANGED <<pure_in, pdvars, fpvars, simvars, srcvars>>

NextAnchor == ApplyExtractors

SpecAnchor == InitAnchor /\ [][NextAnchor]_vars

(***************************************************************************)
(* Reading the source tables: text utilities of make_fihtml.py and of      *)
(* load_existing_data                                                      *)
(***************************************************************************)
None == <<"None">>    \* the value csv.DictReader gives a field a short row lacks

StartsWith(s, w) == Len(s) >= Len(w) /\ SubSeq(s, 1, Len(w)) = w

\* re.search(r'<a href=(?:[\"|\']?)(.*?)(?:[\"|\']?)>(.*?)</a>', value) of
\* make_fihtml.extract_link_info: <<start of group 1, end of group 1, start
\* of group 2, end of group 2>>, <<0, 0, 0, 0>> if there is no match
LooseLinkMatch(value) ==
    LET NoNewline(a, b) == \A k \in a..b : value[k] # "\n"
        \* where group 1 starts for a match starting at p
        from(p) == IF p + 8 <= Len(value) /\ IsLinkQuote(value[p + 8])
                   THEN p + 9 ELSE p + 8
        \* where group 2 starts when group 1 ends at e, 0 if it cannot end there
        after(e) == IF /\ e + 2 <= Len(value)
                       /\ IsLinkQuote(value[e + 1]) /\ value[e + 2] = ">"
                    THEN e + 3
                    ELSE IF e + 1 <= Len(value) /\ value[e + 1] = ">"
                    THEN e + 2 ELSE 0
        ends(p) == { e \in (from(p) - 1)..Len(value) :
                       /\ after(e) # 0
                       /\ NoNewline(from(p), e)
                       /\ FindAt(value, AnchorClose, after(e)) # 0
                       /\ NoNewline(after(e), FindAt(value, AnchorClose, after(e)) - 1) }
        starts == { p \in 1..Len(value) :
                       /\ p + 7 <= Len(value)
                       /\ SubSeq(value, p, p + 7) = AnchorOpen
                       /\ ends(p) # {} }
    IN  IF starts = {} THEN <<0, 0, 0, 0>>
        ELSE LET p == CHOOSE x \in starts : \A y \in starts : x <= y
                 e == CHOOSE x \in ends(p) : \A y \in ends(p) : x <= y
             IN  <<from(p), e, after(e), FindAt(value, AnchorClose, after(e)) - 1>>

\* make_fihtml.extract_link_info: <<title, url>>
make_fihtml_extract_link_info(link_column_value) ==
    LET m     == LooseLinkMatch(link_column_value)
        plain == Strip(link_column_value)
    IN  IF m # <<0, 0, 0, 0>>
        THEN << Strip(SubSeq(link_column_value, m[3], m[4])),
                Strip(SubSeq(link_column_value, m[1], m[2])) >>
        ELSE IF \/ StartsWith(Lower(plain), <<"h","t","t","p">>)
                \/ StartsWith(Lower(plain), <<"w","w","w",".">>)
             THEN <<plain, plain>>
             ELSE <<plain, <<"#">> >>

\* int(s) accepts this text: digits, with whitespace around them
IsIntText(s) == IsDigits(Strip(s))

\* int(s) for such a text
RECURSIVE DigitsValue(_)
DigitsValue(d) ==
    IF d = <<>> THEN 0
    ELSE 10 * DigitsValue(SubSeq(d, 1, Len(d) - 1))
           + ((CHOOSE k \in DOMAIN DigitChars : DigitChars[k] = d[Len(d)]) - 1)
IntValue(s) == DigitsValue(Strip(s))

\* load_existing_data: re.search(r'href=\\""(.*?)\\""', url_cell), group 1 or ''
LoadRawUrl(url_cell) ==
    LET open  == <<"h","r","e","f","=","\\",Q,Q>>
        close == <<"\\",Q,Q>>
        p     == FindAt(url_cell, open, 1)
        q     == IF p = 0 THEN 0 ELSE FindAt(url_cell, close, p + Len(open))
    IN  IF q # 0 /\ \A k \in (p + Len(open))..(q - 1) : url_cell[k] # "\n"
        THEN SubSeq(url_cell, p + Len(open), q - 1)
        ELSE <<>>

\* load_existing_data: re.search(r'>([^<]*)<', url_cell), group 1 or ''
LoadRawTitle(url_cell) ==
    LET starts == { g \in 1..Len(url_cell) :
                      url_cell[g] = ">" /\ FirstAt(url_cell, "<", g + 1) # 0 }
    IN  IF starts = {} THEN <<>>
        ELSE LET g == CHOOSE x \in starts : \A y \in starts : x <= y
             IN  SubSeq(url_cell, g + 1, FirstAt(url_cell, "<", g + 1) - 1)

(***************************************************************************)
(* Reading the source tables: the rows and what each program makes of one  *)
(***************************************************************************)
MaxSrcRows == 2     \* rows of the three source files together

SrcKinds == <<"media", "news", "publications">>

\* row.get(c, default)
Get(row, c, default) == IF c \in DOMAIN row THEN row[c] ELSE default

Without(row, c) == [k \in DOMAIN row \ { c } |-> row[k]]

MediaBase ==
    [ title |-> <<"m">>, external_link |-> <<"l">>, date |-> <<>>, source |-> <<"s">> ]
NewsBase ==
    [ title |-> <<"n">>, url |-> <<"l">>, author |-> <<"a">>, date |-> <<>>,
      imagename |-> <<>>, excerpt |-> <<"e">> ]
PubBase ==
    [ url |-> QuotedAnchor("double", <<"u">>, <<"T">>), publisher |-> <<"p">>,
      published_year |-> <<"2","0","1","5">>, published_month |-> <<"6">>,
      authors |-> <<"w">>, journal |-> <<"j">>, volume |-> <<"v">>,
      issue |-> <<"i">> ]

\* rows a file of the kind is drawn from: the regular row, rows with an empty
\* or unusable field, rows of a file without a column, rows of a file with a
\* column of another kind
MediaRows ==
    { MediaBase, [MediaBase EXCEPT !.title = <<>>], Without(MediaBase, "title"),
      MediaBase @@ [ author |-> <<"x">> ] }
NewsRows ==
    { NewsBase, [NewsBase EXCEPT !.title = <<>>], Without(NewsBase, "title"),
      NewsBase @@ [ source |-> <<"x">> ] }
PubRows ==
    { PubBase }
      \cup { [PubBase EXCEPT !.url = u] :
               u \in { <<>>, None, QuotedAnchor("double", <<"u">>, <<>>),
                       <<"h","t","t","p">> } }
      \cup { [PubBase EXCEPT !.published_year = y] : y \in { <<>>, <<"x">> } }
      \cup { [PubBase EXCEPT !.published_month = m] :
               m \in { <<>>, <<"x">>, <<"1","3">> } }
      \cup { Without(PubBase, "published_month"), PubBase @@ [ title |-> <<"x">> ] }

RowsOf(kind) ==
    CASE kind = "media"        -> MediaRows
      [] kind = "news"         -> NewsRows
      [] kind = "publications" -> PubRows

\* a file: not found, or the rows csv.DictReader yields (all under one header)
FilesOf(kind, k) ==
    { [ found |-> FALSE, rows |-> <<>> ] }
      \cup { [ found |-> TRUE, rows |-> r ] :
               r \in { s \in SeqsUpTo(RowsOf(kind), k) :
                         \A a, b \in DOMAIN s : DOMAIN s[a] = DOMAIN s[b] } }

\* loop body of find_duplicates.parse_csv_data for one row
FdParseRow(kind, row) ==
    IF kind \in { "media", "news" }
    THEN IF "title" \in DOMAIN row
         THEN [ result |-> "entry", entry |-> [ type |-> kind, title |-> row.title ] ]
         ELSE [ result |-> "skip" ]                       \* KeyError
    ELSE LET url == Get(row, "url", <<>>)
         IN  IF url = None
             THEN [ result |-> "abort" ]                  \* TypeError, caught outside the loop
             ELSE LET title == extract_link_info(url)[1]
                  IN  IF title = <<>>
                      THEN [ result |-> "skip" ]          \* ValueError
                      ELSE [ result |-> "entry",
                             entry |-> [ type |-> kind, title |-> title ] ]

\* the title make_fihtml.parse_csv_data gives a publication row
MfPublicationTitle(row) ==
    LET raw_url_value == Get(row, "url", <<>>)
        tl            == make_fihtml_extract_link_info(raw_url_value)
        journal       == Get(row, "journal", <<>>)
        better_title  == IF journal \notin { <<>>, None } THEN journal
                         ELSE raw_url_value
    IN  IF tl[1] = tl[2] \/ tl[1] = <<"#">>
        THEN IF better_title # <<>> THEN Strip(better_title)
             ELSE <<"P","u","b","l","i","c","a","t","i","o","n"," ","L","i","n","k">>
        ELSE tl[1]

\* loop body of make_fihtml.parse_csv_data for one row
MfParseRow(kind, row) ==
    IF kind = "media"
    THEN IF { "title", "external_link", "source" } \subseteq DOMAIN row
         THEN [ result |-> "entry", entry |-> [ type |-> kind, title |-> row.title ] ]
         ELSE [ result |-> "skip" ]
    ELSE IF kind = "news"
    THEN IF { "title", "url", "author", "excerpt" } \subseteq DOMAIN row
         THEN [ result |-> "entry", entry |-> [ type |-> kind, title |-> row.title ] ]
         ELSE [ result |-> "skip" ]
    ELSE LET raw_year  == Get(row, "published_year", None)
             raw_month == Get(row, "published_month", None)
             year_ok   == raw_year \notin { None, <<>> } /\ IsIntText(raw_year)
             year      == IF year_ok THEN IntValue(raw_year) ELSE 0
             defaulted == \/ raw_month \in { None, <<>> }
                          \/ Strip(raw_month) \in { <<>>, <<"0">> }
             month     == IF defaulted THEN 1
                          ELSE IF IsIntText(raw_month) THEN IntValue(raw_month)
                          ELSE 0
         IN  IF Get(row, "url", <<>>) = None
             THEN [ result |-> "skip" ]                   \* TypeError
             ELSE IF year = 0
             THEN [ result |-> "skip" ]                   \* "Year is critically missing"
             ELSE IF ~defaulted /\ ~IsIntText(raw_month)
             THEN [ result |-> "skip" ]                   \* int(raw_month): ValueError
             ELSE IF ~(year \in 1..9999 /\ month \in 1..12)
             THEN [ result |-> "skip" ]                   \* datetime(...): ValueError
             ELSE [ result |-> "entry",
                    entry |-> [ type |-> kind, title |-> MfPublicationTitle(row),
                                year |-> year, month |-> month ] ]

\* combine_csv.py: FINAL_HEADER, INPUT_FILES (the data_type of each source, as
\* a one-word text), COLUMN_MAPS as pairs <<source column, destination column>>
FINAL_HEADER ==
    <<"data_type", "title", "url", "date", "author", "imagename", "excerpt",
      "publisher", "published_year", "published_month", "authors_pub", "journal",
      "volume", "issue", "source_media">>

DataType(kind) ==
    CASE kind = "media"        -> <<"Media Mention">>
      [] kind = "news"         -> <<"News/Feature">>
      [] kind = "publications" -> <<"Publication">>

COLUMN_MAPS(kind) ==
    CASE kind = "media" ->
           { <<"title", "title">>, <<"external_link", "url">>, <<"date", "date">>,
             <<"source", "source_media">> }
      [] kind = "news" ->
           { <<"title", "title">>, <<"url", "url">>, <<"author", "author">>,
             <<"date", "date">>, <<"imagename", "imagename">>,
             <<"excerpt", "excerpt">> }
      [] kind = "publications" ->
           { <<"url", "url">>, <<"publisher", "publisher">>,
             <<"published_year", "published_year">>,
             <<"published_month", "published_month">>,
             <<"authors", "authors_pub">>, <<"journal", "journal">>,
             <<"volume", "volume">>, <<"issue", "issue">> }

\* str(value or '')
StrOrEmpty(value) == IF value = None THEN <<>> ELSE value

\* variant: the row is built from the mapped columns only, with no blanks
CombineRow_MappedOnly(kind, row) ==
    LET present == { m \in COLUMN_MAPS(kind) : m[1] \in DOMAIN row }
    IN  [ f \in { m[2] : m \in present } \cup { "data_type" } |->
            IF f = "data_type" THEN DataType(kind)
            ELSE StrOrEmpty(row[(CHOOSE m \in present : m[2] = f)[1]]) ]

\* loop body of combine_csv_files for one row: blanks for all of FINAL_HEADER,
\* data_type, the mapped columns, and for a publication the extracted title
CombineRow(kind, row) ==
    LET present == { m \in COLUMN_MAPS(kind) : m[1] \in DOMAIN row }
        mapped  == [ f \in Range(FINAL_HEADER) |->
                       IF \E m \in present : m[2] = f
                       THEN StrOrEmpty(row[(CHOOSE m \in present : m[2] = f)[1]])
                       ELSE IF f = "data_type" THEN DataType(kind)
                       ELSE <<>> ]
    IN  IF kind = "publications"
        THEN [mapped EXCEPT !["title"] = extract_publication_title_from_url(mapped["url"])]
        ELSE mapped

\* loop body of load_existing_data for one row
LoadRow(row) ==
    LET url_cell == Get(row, "url", <<>>)
    IN  IF url_cell = None
        THEN [ result |-> "abort" ]                       \* TypeError, caught outside the loop
        ELSE [ result |-> "entry",
               entry |-> [ raw_url |-> LoadRawUrl(url_cell),
                           raw_title |-> LoadRawTitle(url_cell),
                           normalized_title |-> normalize_title(LoadRawTitle(url_cell)) ]
                           @@ row ]

(***************************************************************************)
(* Reading the source tables: the four readers as one machine              *)
(***************************************************************************)
Programs == { "find_duplicates", "make_fihtml", "combine_csv", "load_existing_data" }

\* the sources a program reads, in the order it reads them
SourcesOf(prog) ==
    IF prog = "load_existing_data" THEN <<"publications">> ELSE SrcKinds

CurKind == SourcesOf(src_prog)[src_kind]
CurFile == src_files[CurKind]
CurRow  == CurFile.rows[src_row]

\* the status once the current source is finished
AfterSource ==
    IF src_kind + 1 > Len(SourcesOf(src_prog)) THEN "done" ELSE "open"

InitSrc ==
    /\ src_prog \in Programs
    /\ \E pf \in FilesOf("publications", MaxSrcRows) :
         \E nf \in FilesOf("news", MaxSrcRows - Len(pf.rows)) :
           \E mf \in FilesOf("media", MaxSrcRows - Len(pf.rows) - Len(nf.rows)) :
             /\ src_prog = "load_existing_data"
                  => (nf.rows = <<>> /\ nf.found /\ mf.rows = <<>> /\ mf.found)
             /\ src_files = [ media |-> mf, news |-> nf, publications |-> pf ]
    /\ src_kind = 1 /\ src_row = 0
    /\ src_entries = <<>> /\ src_warnings = 0 /\ src_status = "open"
    /\ PDIdle /\ FPIdle /\ SimIdle /\ PureIdle

\* open(filename) succeeds: the rows are iterated
OpenSource ==
    /\ src_status = "open" /\ CurFile.found
    /\ src_status' = "rows" /\ src_row' = 1
    /\ UNCHANGED <<src_prog, src_files, src_kind, src_entries, src_warnings>>
    /\ UNCHANGED <<pdvars, fpvars, simvars, purevars>>

\* variant: a file that is not found ends the run
FileNotFoundSkipped_Exits ==
    /\ src_status = "open" /\ ~CurFile.found
    /\ src_prog \in { "find_duplicates", "make_fihtml", "load_existing_data" }
    /\ src_warnings' = src_warnings + 1
    /\ src_status' = "exit"
    /\ UNCHANGED <<src_prog, src_files, src_kind, src_row, src_entries>>
    /\ UNCHANGED <<pdvars, fpvars, simvars, purevars>>

\* except FileNotFoundError of the parse_csv_data functions and of
\* load_existing_data: a warning, the entries read so far are returned
FileNotFoundSkipped ==
    /\ src_status = "open" /\ ~CurFile.found
    /\ src_prog \in { "find_duplicates", "make_fihtml", "load_existing_data" }
    /\ src_warnings' = src_warnings + 1
    /\ src_kind' = src_kind + 1 /\ src_row' = 0
    /\ src_status' = AfterSource
    /\ UNCHANGED <<src_prog, src_files, src_entries>>
    /\ UNCHANGED <<pdvars, fpvars, simvars, purevars>>

\* except FileNotFoundError of combine_csv_files: an error line, sys.exit(1)
FileNotFoundExit ==
    /\ src_status = "open" /\ ~CurFile.found
    /\ src_prog = "combine_csv"
    /\ src_warnings' = src_warnings + 1
    /\ src_status' = "exit"
    /\ UNCHANGED <<src_prog, src_files, src_kind, src_row, src_entries>>
    /\ UNCHANGED <<pdvars, fpvars, simvars, purevars>>

\* one row of parse_csv_data (either program) or of load_existing_data
ParseRow ==
    /\ src_status = "rows" /\ src_row <= Len(CurFile.rows)
    /\ src_prog \in { "find_duplicates", "make_fihtml", "load_existing_data" }
    /\ LET o == CASE src_prog = "find_duplicates"    -> FdParseRow(CurKind, CurRow)
                  [] src_prog = "make_fihtml"         -> MfParseRow(CurKind, CurRow)
                  [] src_prog = "load_existing_data"  -> LoadRow(CurRow)
       IN  CASE o.result = "entry" ->
                  /\ src_entries' = Append(src_entries, o.entry)
                  /\ src_row' = src_row + 1
                  /\ UNCHANGED <<src_kind, src_warnings, src_status>>
             [] o.result = "skip" ->
                  /\ src_warnings' = src_warnings + 1
                  /\ src_row' = src_row + 1
                  /\ UNCHANGED <<src_kind, src_entries, src_status>>
             [] o.result = "abort" ->
                  /\ src_warnings' = src_warnings + 1
                  /\ src_kind' = src_kind + 1 /\ src_row' = 0
                  /\ src_status' = AfterSource
                  /\ UNCHANGED src_entries
    /\ UNCHANGED <<src_prog, src_files>>
    /\ UNCHANGED <<pdvars, fpvars, simvars, purevars>>

\* one row of combine_csv_files
CombineOneRow ==
    /\ src_status = "rows" /\ src_row <= Len(CurFile.rows)
    /\ src_prog = "combine_csv"
    /\ src_entries' = Append(src_entries, CombineRow(CurKind, CurRow))
    /\ src_row' = src_row + 1
    /\ UNCHANGED <<src_prog, src_files, src_kind, src_warnings, src_status>>
    /\ UNCHANGED <<pdvars, fpvars, simvars, purevars>>

\* the rows of the current source are exhausted
SourceDone ==
    /\ src_status = "rows" /\ src_row > Len(CurFile.rows)
    /\ src_kind' = src_kind + 1 /\ src_row' = 0
    /\ src_status' = AfterSource
    /\ UNCHANGED <<src_prog, src_files, src_entries, src_warnings>>
    /\ UNCHANGED <<pdvars, fpvars, simvars, purevars>>

NextSrc ==
    \/ OpenSource
    \/ FileNotFoundSkipped
    \/ FileNotFoundExit
    \/ ParseRow
    \/ CombineOneRow
    \/ SourceDone

SpecSrc == InitSrc /\ [][NextSrc]_vars

(***************************************************************************)
(* find_pubdup.py: main on a table whose url cells differ in whitespace    *)
(***************************************************************************)
SpacedUrlCells ==
    { Anchor(<<"u">>, <<"a","b"," ","c","d","e","f","g">>),
      Anchor(<<"u">>, <<"a","b"," "," ","c","d","e","f","g">>),
      Anchor(<<"u">>, <<"w","x","y","z">>) }

SpacedRows ==
    { [c \in Range(DataColumns) |->
         IF c = URL_COL THEN u ELSE <<"2","0","1","5",".","0">>] : u \in SpacedUrlCells }

InitFPSpaced ==
    /\ version \in { "main", "functional" }
    /\ \E rows \in SeqsUpTo(SpacedRows, MaxRows) :
          df = [k \in DOMAIN rows |-> WithKey(rows[k])]
    /\ i = 1 /\ j = 2
    /\ fp_choice = "" /\ merged_row = EmptyDict /\ col = 0 /\ sel = <<>>
    /\ fp_pc = "scan"
    /\ output = <<>> /\ fp_run = 1 /\ first_output = <<>> /\ fp_all_skip = TRUE
    /\ fp_printed = <<>>
    /\ PDIdle /\ SimIdle /\ PureIdle /\ SrcIdle

SpecFPSpaced == InitFPSpaced /\ [][NextFP]_vars

(***************************************************************************)
(* functional_version/add_commons2publications.py: update_publications_data *)
(* The CSV content is the list of its data rows (csv.reader / csv.writer),  *)
(* the JSON content the list data.get('records', []) or a text that does    *)
(* not decode                                                               *)
(***************************************************************************)
MaxCsvRows == 2
MaxRecords == 2

\* AUTHOR_SEPARATOR = "<br />\r\n"
AUTHOR_SEPARATOR == <<"<","b","r"," ","/",">","\r","\n">>

\* AUTHOR_SEPARATOR.join(authors)
RECURSIVE JoinAuthors(_)
JoinAuthors(authors) ==
    IF authors = <<>> THEN <<>>
    ELSE IF Len(authors) = 1 THEN Head(authors)
    ELSE Head(authors) \o AUTHOR_SEPARATOR \o JoinAuthors(Tail(authors))

\* re.search(r'(\d{4})', date_str): the leftmost four digits in a row, '' if none
published_year(date_str) ==
    LET starts == { p \in 1..(Len(date_str) - 3) :
                      \A k \in p..(p + 3) : IsDigit(date_str[k]) }
    IN  IF starts = {} THEN <<>>
        ELSE LET p == CHOOSE x \in starts : \A y \in starts : x <= y
             IN  SubSeq(date_str, p, p + 3)

\* f'<a href="{url}">{title}</a>'
url_title_field(record) ==
    Anchor(Get(record, "persistent_url", None), Get(record, "title", <<"U","n","t","i","t","l","e","d">>))

\* if not url: continue
HasUrl(record) ==
    Get(record, "persistent_url", None) \notin { None, <<>> }

\* the 8 columns of a new row
NewRow(record) ==
    << url_title_field(record), <<>>, published_year(Get(record, "date", <<>>)), <<>>,
       JoinAuthors(Get(record, "author", <<>>)), <<>>, <<>>, <<>> >>

\* variant: a field just added counts as present
RECURSIVE new_rows_Remembering(_, _)
new_rows_Remembering(records, existing_url_titles) ==
    IF records = <<>> THEN <<>>
    ELSE LET record == Head(records)
         IN  IF ~HasUrl(record) \/ url_title_field(record) \in existing_url_titles
             THEN new_rows_Remembering(Tail(records), existing_url_titles)
             ELSE <<NewRow(record)>>
                    \o new_rows_Remembering(Tail(records),
                                 existing_url_titles \cup { url_title_field(record) })

\* the loop over records: new_rows; existing_url_titles is not added to
RECURSIVE new_rows(_, _)
new_rows(records, existing_url_titles) ==
    IF records = <<>> THEN <<>>
    ELSE LET record == Head(records)
         IN  IF ~HasUrl(record) \/ url_title_field(record) \in existing_url_titles
             THEN new_rows(Tail(records), existing_url_titles)
             ELSE <<NewRow(record)>> \o new_rows(Tail(records), existing_url_titles)

\* update_publications_data: the data rows of the returned CSV content
update_publications_data(existing_rows, records, decodes) ==
    IF ~decodes THEN existing_rows
    ELSE existing_rows
           \o new_rows(records, { existing_rows[k][1] : k \in DOMAIN existing_rows })

\* inputs
CsvRow(url, title) ==
    << Anchor(url, title), <<>>, <<"2","0","1","5">>, <<>>, <<"A">>, <<>>, <<>>, <<>> >>
CsvRows == { CsvRow(<<"u">>, <<"t">>), CsvRow(<<"w">>, <<"t">>) }
FullJsonRecords ==
    { [ persistent_url |-> u, title |-> <<"t">>, date |-> d[1], author |-> d[2] ] :
        u \in { <<"u">>, <<"v">>, <<>> },
        d \in { << <<"M","a","y"," ","2","0","1","5","0">>, << <<"A">>, <<"B">> >> >>,
                << <<"2","0","1">>, <<>> >> } }
WithoutKeys(record, keys) == [k \in DOMAIN record \ keys |-> record[k]]
JsonRecords ==
    { WithoutKeys(r, ks) : r \in FullJsonRecords,
                       ks \in { {}, { "persistent_url" }, { "title" } } }

InitUpdate ==
    /\ \E rows \in SeqsUpTo(CsvRows, MaxCsvRows) :
         \E recs \in SeqsUpTo(JsonRecords, MaxRecords) :
           \E ok \in BOOLEAN :
             pure_in = [ existing_rows |-> rows, records |-> recs, decodes |-> ok ]
    /\ pure_out = <<>>
    /\ pure_pc = "update"
    /\ PDIdle /\ FPIdle /\ SimIdle /\ SrcIdle

ApplyUpdate ==
    /\ pure_pc = "update"
    /\ pure_out' = update_publications_data(pure_in.existing_rows, pure_in.records,
                                            pure_in.decodes)
    /\ pure_pc' = "update_done"
    /\ UNCHANGED <<pure_in, pdvars, fpvars, simvars, srcvars>>

NextUpdate == ApplyUpdate

SpecUpdate == InitUpdate /\ [][NextUpdate]_vars

(***************************************************************************)
(* find_duplicates.py: find_duplicates                                     *)
(* title_map is a dict in insertion order: a sequence of                   *)
(* [normalized, entries]; what is printed is the groups of more than one   *)
(***************************************************************************)
MaxEntries == 3

\* position of the key in title_map, 0 if absent
KeyIndex(title_map, normalized) ==
    LET hits == { k \in DOMAIN title_map : title_map[k].normalized = normalized }
    IN  IF hits = {} THEN 0 ELSE CHOOSE k \in hits : TRUE

\* title_map[normalized].append(entry), with the key created when new
MapAppend(title_map, normalized, entry) ==
    IF KeyIndex(title_map, normalized) = 0
    THEN Append(title_map, [ normalized |-> normalized, entries |-> <<entry>> ])
    ELSE [title_map EXCEPT ![KeyIndex(title_map, normalized)].entries = Append(@, entry)]

\* variant: an entry without a title is mapped as well
MapEntry_AnyTitle(title_map, entry) ==
    MapAppend(title_map, find_duplicates_normalize_title(Get(entry, "title", <<>>)), entry)

\* one pass of "for entry in all_entries": if original_title: ...
MapEntry(title_map, entry) ==
    IF Get(entry, "title", <<>>) # <<>>
    THEN MapAppend(title_map, find_duplicates_normalize_title(Get(entry, "title", <<>>)), entry)
    ELSE title_map

RECURSIVE BuildTitleMap(_, _)
BuildTitleMap(title_map, all_entries) ==
    IF all_entries = <<>> THEN title_map
    ELSE BuildTitleMap(MapEntry(title_map, Head(all_entries)), Tail(all_entries))

\* find_duplicates: the groups printed, in the order printed
find_duplicates(all_entries) ==
    SelectSeq(BuildTitleMap(<<>>, all_entries), LAMBDA g : Len(g.entries) > 1)

\* inputs: entries as load_and_parse_csv builds them
EntryTitles == { <<>>, <<"A"," ","b">>, <<"a"," "," ","b","-">>, <<"c">>, <<"-">> }
DupEntries ==
    { [ title |-> t, type |-> "news", source_file |-> "news_data.csv" ] : t \in EntryTitles }

InitDup ==
    /\ pure_in \in SeqsUpTo(DupEntries, MaxEntries)
    /\ pure_out = <<>>
    /\ pure_pc = "dups"
    /\ PDIdle /\ FPIdle /\ SimIdle /\ SrcIdle

ApplyFindDuplicates ==
    /\ pure_pc = "dups"
    /\ pure_out' = find_duplicates(pure_in)
    /\ pure_pc' = "dups_done"
    /\ UNCHANGED <<pure_in, pdvars, fpvars, simvars, srcvars>>

NextDup == ApplyFindDuplicates

SpecDup == InitDup /\ [][NextDup]_vars

(***************************************************************************)
(* Properties                                                              *)
(***************************************************************************)
AtLoopHead == pc = "loop" /\ n <= Len(scraped_data)
SameTitle(p, q) == p.normalized_title = q.normalized_title
InStore(P(_)) == \E k \in DOMAIN total_entries : P(total_entries[k])

\* C1: an incoming record whose URL is in the accepted-URL set is discarded
\* without a decision, even when its title equals an existing title, and the
\* step changes neither the store nor the accepted-URL set.
C1_ExactDuplicateDiscardedSilently ==
    [][ (AtLoopHead /\ new_pub.raw_url \in existing_raw_urls)
          => /\ pc' = "loop" /\ n' = n + 1
             /\ choice' = choice
             /\ total_entries' = total_entries
             /\ existing_raw_urls' = existing_raw_urls ]_vars

\* C1 witness: the first incoming record had an accepted URL and an existing
\* title, and was passed over with no prompt and no change to the store.
C1_Witness ==
    /\ pc = "loop" /\ n = 2 /\ run = 1
    /\ scraped_data[1].raw_url \in existing_raw_urls
    /\ find_matching_entry(scraped_data[1], existing_data) # 0
    /\ choice = ""
    /\ total_entries = existing_data

\* C2: an incoming record whose link equals, after stripping query string and
\* fragment, the link of a record in the store is discarded as an exact
\* duplicate: no decision is requested and it is not appended.
C2_StrippedLinkEqualIsExact ==
    [][ (AtLoopHead /\ InStore(LAMBDA p : StripQueryFragment(p.raw_url)
                                           = StripQueryFragment(new_pub.raw_url)))
          => /\ pc' = "loop" /\ n' = n + 1
             /\ total_entries' = total_entries ]_vars

\* C3: an incoming record that is not an exact URL duplicate and whose
\* normalized title equals that of a record currently in the store (also one
\* accepted earlier in the same pass) is escalated to a decision.
C3_TitleEqualAlwaysEscalated ==
    [][ (/\ AtLoopHead
         /\ new_pub.raw_url \notin existing_raw_urls
         /\ InStore(LAMBDA p : SameTitle(p, new_pub)))
          => pc' = "prompt" ]_vars

\* C4: after KEEP_BOTH ('B') the incoming record is appended and its URL, like
\* the existing record's URL, is in the accepted-URL set.
C4_KeepBothRegistersUrl ==
    [][ (pc = "prompt" /\ choice' = "B")
          => /\ total_entries' = Append(total_entries, new_pub)
             /\ new_pub.raw_url \in existing_raw_urls'
             /\ existing_data[matching_existing_pub].raw_url \in existing_raw_urls' ]_vars

\* C5: REPLACE_WITH_NEW ('2') removes exactly the one matched existing record
\* and appends the incoming record: the store keeps its size and every other
\* record.
C5_ReplaceRemovesExactlyTheMatch ==
    [][ (pc = "prompt" /\ choice' = "2")
          => \E k \in DOMAIN total_entries :
                /\ total_entries[k] = existing_data[matching_existing_pub]
                /\ total_entries' =
                     Append(SubSeq(total_entries, 1, k - 1)
                              \o SubSeq(total_entries, k + 1, Len(total_entries)),
                            new_pub) ]_vars

InMergeColumn == fp_pc = "merge" /\ col <= Len(Columns) /\ ~IsInternal(Columns[col])
AtApplyMerge  == fp_pc = "merge" /\ col > Len(Columns)

\* the side a merge takes for the current column, given the answer s
ChosenSide(s) ==
    IF val1 = val2 THEN val1
    ELSE IF s = <<"1">> THEN val1
    ELSE IF s = <<"2">> THEN val2
    ELSE s

\* C6 as stated: the merged value of a column is the common value, or row i's
\* value on '1', row j's on '2', otherwise the literal text supplied.
C6_MergedValueIsChosenValue ==
    [][ InMergeColumn => merged_row'[Columns[col]] = ChosenSide(sel') ]_vars

\* C6 amended: the merged value of a column is smart_cast applied to the common
\* value, or to row i's value on '1', row j's on '2', otherwise to the literal
\* text supplied; the merged row written to position i carries these values.
C6_MergedValueIsCastOfChosenValue ==
    [][ /\ InMergeColumn
          => merged_row'[Columns[col]] =
               (IF version = "main" THEN smart_cast_main(ChosenSide(sel'))
                ELSE smart_cast_functional(ChosenSide(sel')))
        /\ AtApplyMerge
          => \A c \in Range(DataColumns) : df'[i][c] = merged_row[c] ]_vars

\* C6 witness: a merge was applied in which one column needed a choice, '2' was
\* chosen, and the year column carries the canonical text.
C6_Witness ==
    /\ fp_pc = "scan" /\ fp_choice = "y" /\ col > Len(Columns)
    /\ sel = <<"2">>
    /\ i <= Len(df)
    /\ \A c \in Range(DataColumns) : df[i][c] = merged_row[c]
    /\ merged_row["published_year"] = <<"2","0","1","5">>

\* C7: a merge of rows i and j (i < j) puts the merged record at position i,
\* removes row j, shortens the store by one and leaves every other row and
\* the order of the rows as they were.
C7_MergeInPlace ==
    [][ AtApplyMerge
          => /\ i < j
             /\ Len(df') = Len(df) - 1
             /\ \A c \in Range(DataColumns) : df'[i][c] = merged_row[c]
             /\ \A k \in 1..Len(df') :
                   k # i => df'[k] = df[IF k < j THEN k ELSE k + 1] ]_vars

\* C7 witness: a merge was applied and a row that followed row j has moved up
\* behind the merged row.
C7_Witness ==
    /\ fp_pc = "scan" /\ fp_choice = "y" /\ col > Len(Columns)
    /\ i = 1 /\ j = 2 /\ Len(df) = 2
    /\ fp_run = 1
    /\ \A c \in Range(DataColumns) : df[1][c] = merged_row[c]

\* C8: a compared pair is presented for a decision exactly when its score is at
\* or above 0.70; a pair below it is passed over with both rows unchanged.
C8_PresentedIffAtOrAboveThreshold ==
    [][ (fp_pc = "scan" /\ i <= Len(df) /\ j <= Len(df))
          => /\ (fp_pc' = "ask") <=> (10 * url_sim[1] >= 7 * url_sim[2])
             /\ (10 * url_sim[1] < 7 * url_sim[2])
                  => (df' = df /\ j' = j + 1 /\ i' = i /\ fp_pc' = "scan") ]_vars

\* C8 witness: a pair scoring exactly 0.70 is being presented.
C8_Witness ==
    /\ fp_pc = "ask"
    /\ 10 * url_sim[1] = 7 * url_sim[2]

\* a comparison key: lower-case letters, digits and spaces, with the space that
\* joins href and visible text
IsKey(s) == (\A k \in DOMAIN s : IsKeyChar(s[k])) /\ (\E k \in DOMAIN s : s[k] = " ")

\* C9: the similarity score is symmetric, is 1.0 for equal keys and lies in [0, 1].
C9_SimilaritySymmetricReflexive ==
    (sim_pc = "done" /\ IsKey(sim_a) /\ IsKey(sim_b))
      => /\ sim_ab[1] * sim_ba[2] = sim_ba[1] * sim_ab[2]
         /\ sim_a = sim_b => sim_ab[1] = sim_ab[2]
         /\ 0 <= sim_ab[1] /\ sim_ab[1] <= sim_ab[2]

\* C10: with SKIP chosen for every conflict, a second pass over the result of
\* the first with the same input yields the same store, for process_data and
\* for the find_pubdup pass.
C10_IdempotentUnderSkip ==
    /\ (pc = "done" /\ run = 2 /\ all_skip) => total_entries = first_result
    /\ (fp_pc = "done" /\ fp_run = 2 /\ fp_all_skip) => output = first_output

\* C10 witness: the second process_data pass has ended after a conflict answered
\* S, on a store the first pass had extended.
C10_Witness ==
    /\ pc = "done" /\ run = 2 /\ all_skip
    /\ choice = "S"
    /\ Len(total_entries) = 2 /\ Len(scraped_data) = 2
    /\ total_entries[2] \in { scraped_data[1], scraped_data[2] }
    /\ total_entries = first_result

\* C11: smart_cast is idempotent in both versions: casting the result again
\* returns the same text.
C11_SmartCastIdempotent ==
    pure_pc = "cast_done"
      => /\ pure_out.main2 = pure_out.main
         /\ pure_out.functional2 = pure_out.functional

\* C12: a conflict is raised against the first record of the store, in store
\* order, whose title matches the incoming record, and an incoming record
\* consumed by a replace is not compared again.
C12_ConflictAgainstFirstMatchInStore ==
    [][ /\ (AtLoopHead /\ pc' = "prompt")
          => \E k \in DOMAIN total_entries :
                /\ total_entries[k] = existing_data[matching_existing_pub']
                /\ SameTitle(total_entries[k], new_pub)
                /\ \A q \in 1..(k - 1) : ~SameTitle(total_entries[q], new_pub)
        /\ (pc = "prompt" /\ choice' = "2")
          => (pc' = "loop" /\ n' = n + 1) ]_vars

\* C13: while the per-column choices of a merge are collected no row changes;
\* the table changes only in the step that follows the last column, when
\* merged_row holds every data column.
C13_NoPartialMergeWrites ==
    [][ /\ (fp_pc \in { "ask", "merge" } /\ col <= Len(Columns))
              => (df' = df /\ output' = output)
        /\ df' # df => /\ AtApplyMerge
                       /\ DOMAIN merged_row = Range(DataColumns) ]_vars

\* C13 witness: in the middle of a merge a choice has been made that differs
\* from row i, and row i still has its old value.
C13_Witness ==
    /\ fp_pc = "merge" /\ col <= Len(Columns) /\ fp_run = 1
    /\ sel # <<>>
    /\ \E c \in DOMAIN merged_row : merged_row[c] # df[i][c]

C20_SkipNewLeavesStoreUnchanged ==
    [][ /\ (pc = "prompt" /\ choice' \in { "1", "S" })
              => /\ total_entries' = total_entries
                 /\ existing_raw_urls' = existing_raw_urls
                 /\ existing_data' = existing_data
                 /\ n' = n + 1 /\ pc' = "loop"
        /\ (fp_pc = "ask" /\ fp_choice' = "s")
              => /\ df' = df /\ output' = output
                 /\ j' = j + 1 /\ fp_pc' = "scan" ]_vars

\* C20 witness: the first incoming record conflicted with an existing record,
\* the answer was S, and the store is the existing data.
C20_Witness ==
    /\ pc = "loop" /\ run = 1 /\ n = 2
    /\ choice = "S" /\ matching_existing_pub # 0
    /\ Len(existing_data) >= 1
    /\ total_entries = existing_data

\* a text of lowercase letters, digits and single spaces, with no space at
\* either end
IsCleanKey(r) ==
    /\ \A k \in DOMAIN r : r[k] \in Range(LowerChars) \cup Range(DigitChars) \cup { " " }
    /\ \A k \in 1..(Len(r) - 1) : ~(r[k] = " " /\ r[k + 1] = " ")
    /\ r # <<>> => (r[1] # " " /\ r[Len(r)] # " ")

\* C17: both normalize_title functions map a title and any title that differs
\* from it only by punctuation, case or spacing to the same key, and the key
\* holds only lowercase alphanumeric characters and single spaces, with no
\* space at either end.
C17_NormalizeTitleKey ==
    pure_pc = "norm_done"
      => /\ pure_out.fd = pure_out.fd_var
         /\ pure_out.scr = pure_out.scr_var
         /\ IsCleanKey(pure_out.fd) /\ IsCleanKey(pure_out.scr)

\* C18: for a link field <a href=QhrefQ>text</a> quoted with single quotes,
\* double quotes or doubled double quotes, extract_href_and_text returns the
\* href and the text, extract_link_info returns the text and the href, and
\* extract_publication_title_from_url returns the text.
C18_AnchorExtractionAnyQuoting ==
    pure_pc = "anchor_done"
      => /\ pure_out.href_and_text = <<pure_in.href, Strip(pure_in.text)>>
         /\ pure_out.link_info = <<Strip(pure_in.text), pure_in.href>>
         /\ pure_out.title = Strip(pure_in.text)

\* a row of the current source is about to be handled by parse_csv_data
AtParseRow ==
    /\ src_status = "rows" /\ src_row <= Len(CurFile.rows)
    /\ src_prog \in { "find_duplicates", "make_fihtml" }

\* the row lacks a schema-required field: a news or media row without a
\* title or with an empty one; a publication row whose link field has no
\* visible text, or, where the year and month are used (make_fihtml), whose
\* year or month is missing or not a number of a date
LacksRequiredField(prog, kind, row) ==
    IF kind \in { "media", "news" }
    THEN Get(row, "title", <<>>) \in { <<>>, None }
    ELSE LET url   == Get(row, "url", <<>>)
             year  == Get(row, "published_year", <<>>)
             month == Get(row, "published_month", <<>>)
         IN  \/ url = None
             \/ Strip(RemoveTags(url)) = <<>>
             \/ /\ prog = "make_fihtml"
                /\ \/ ~IsIntText(year)
                   \/ IntValue(year) \notin 1..9999
                   \/ ~IsIntText(month)
                   \/ IntValue(month) \notin 1..12

\* C14: in both parse_csv_data functions a row that lacks a schema-required
\* field is skipped with a warning and produces no entry, and the reading
\* goes on with the next row of the same source.
C14_MalformedRowSkipped ==
    [][ (AtParseRow /\ LacksRequiredField(src_prog, CurKind, CurRow))
          => /\ src_entries' = src_entries
             /\ src_warnings' = src_warnings + 1
             /\ src_row' = src_row + 1
             /\ src_kind' = src_kind /\ src_status' = "rows" ]_vars

\* the rows and the missing files of the sources the program reads
RowsTotal ==
    LET ks == Range(SourcesOf(src_prog))
    IN  (IF "media" \in ks THEN Len(src_files["media"].rows) ELSE 0)
          + (IF "news" \in ks THEN Len(src_files["news"].rows) ELSE 0)
          + Len(src_files["publications"].rows)
MissingFiles == { k \in Range(SourcesOf(src_prog)) : ~src_files[k].found }
NoShortRow ==
    \A k \in DOMAIN src_files["publications"].rows :
       Get(src_files["publications"].rows[k], "url", <<>>) # None

\* C15 as stated: in every reader, combine_csv_files included, a source that
\* cannot be read adds no record, the reading goes on with the next source,
\* and the run is not terminated.
C15_UnreadableSourceSkippedByAll ==
    [][ (src_status = "open" /\ ~CurFile.found)
          => /\ src_entries' = src_entries
             /\ src_kind' = src_kind + 1
             /\ src_status' \in { "open", "done" } ]_vars

\* C15: in find_duplicates.parse_csv_data, make_fihtml.parse_csv_data and
\* load_existing_data a source that cannot be read gives a warning and no
\* record, the reading goes on with the next source, and when the run is done
\* every row of every readable source has been handled; combine_csv_files
\* instead ends the run at the first source that is not found.
C15_UnreadableSourceSkippedOrExit ==
    [][ /\ (src_status = "open" /\ ~CurFile.found /\ src_prog # "combine_csv")
              => /\ src_entries' = src_entries
                 /\ src_warnings' = src_warnings + 1
                 /\ src_kind' = src_kind + 1
                 /\ src_status' \in { "open", "done" }
        /\ (src_status = "open" /\ ~CurFile.found /\ src_prog = "combine_csv")
              => /\ src_entries' = src_entries
                 /\ src_status' = "exit"
        /\ src_status' = "exit"
              => (src_prog = "combine_csv" /\ MissingFiles # {})
        /\ (src_status' = "done" /\ src_prog # "combine_csv" /\ NoShortRow)
              => Len(src_entries') + src_warnings'
                    = RowsTotal + Cardinality(MissingFiles) ]_vars

\* C15 witness: find_duplicates is done, the news file was not found, and the
\* media file before it and the publications file after it each gave an entry.
C15_Witness ==
    /\ src_prog = "find_duplicates" /\ src_status = "done"
    /\ ~src_files["news"].found
    /\ Len(src_entries) = 2 /\ src_warnings = 1
    /\ src_entries[1].type = "media" /\ src_entries[2].type = "publications"

\* C16: every row combine_csv_files emits has exactly the columns of
\* FINAL_HEADER; data_type is the kind of the source; each mapped source
\* column the row has is copied to its destination; and every other column is
\* empty, but for the title of a publication, which is extracted from the link.
C16_CombinedRowHasFinalHeader ==
    [][ (src_prog = "combine_csv" /\ Len(src_entries') = Len(src_entries) + 1)
          => LET new_row == src_entries'[Len(src_entries')]
                 present == { m \in COLUMN_MAPS(CurKind) : m[1] \in DOMAIN CurRow }
             IN  /\ DOMAIN new_row = Range(FINAL_HEADER)
                 /\ new_row["data_type"] = DataType(CurKind)
                 /\ \A m \in present : new_row[m[2]] = StrOrEmpty(CurRow[m[1]])
                 /\ \A f \in Range(FINAL_HEADER) :
                      (/\ f # "data_type"
                       /\ ~(f = "title" /\ CurKind = "publications")
                       /\ ~\E m \in present : m[2] = f)
                        => new_row[f] = <<>>
                 /\ CurKind = "publications"
                      => new_row["title"]
                           = extract_publication_title_from_url(new_row["url"]) ]_vars

\* C16 witness: combine_csv_files is done with a news row that carried a
\* source column and a publication row; the news row has an empty
\* source_media and publisher, the publication row an empty author and date.
C16_Witness ==
    /\ src_prog = "combine_csv" /\ src_status = "done"
    /\ Len(src_entries) = 2
    /\ Len(src_files["news"].rows) = 1 /\ Len(src_files["publications"].rows) = 1
    /\ "source" \in DOMAIN src_files["news"].rows[1]
    /\ src_entries[1]["data_type"] = DataType("news")
    /\ src_entries[1]["source_media"] = <<>> /\ src_entries[1]["publisher"] = <<>>
    /\ src_entries[2]["data_type"] = DataType("publications")
    /\ src_entries[2]["title"] = <<"T">>
    /\ src_entries[2]["author"] = <<>> /\ src_entries[2]["date"] = <<>>

\* the text without its whitespace
WithoutSpace(s) == SelectSeq(s, LAMBDA c : ~IsSpace(c))

\* C21: in a merge, when the two values of a column differ only in
\* whitespace no choice is requested for the column and that value is kept.
C21_WhitespaceEqualNotAsked ==
    [][ (InMergeColumn /\ WithoutSpace(val1) = WithoutSpace(val2))
          => /\ ~MergeChooseColumn
             /\ WithoutSpace(merged_row'[Columns[col]]) = WithoutSpace(smart_cast(val1)) ]_vars

\* the link field holds an anchor with a visible inner text
HasAnchorTitle(url) ==
    /\ FindAt(url, <<"<","a">>, 1) # 0
    /\ FindAt(url, AnchorClose, 1) # 0
    /\ Strip(RemoveTags(url)) # <<>>

\* C22: in find_duplicates.parse_csv_data a publication row whose link field
\* holds no anchor markup, or an anchor with an empty inner text, gives a
\* warning and no entry; the whole field is never taken as the title.
C22_NoAnchorNoEntry ==
    [][ (/\ AtParseRow /\ src_prog = "find_duplicates"
         /\ CurKind = "publications"
         /\ Get(CurRow, "url", <<>>) # None
         /\ ~HasAnchorTitle(Get(CurRow, "url", <<>>)))
          => /\ src_entries' = src_entries
             /\ src_warnings' = src_warnings + 1 ]_vars

\* C23: whenever two rows are compared or presented, the comparison key of
\* every row is extract_combined_url_text of the row's current url value, also
\* after a merge changed the url; the key column is not in the written table.
C23_KeyFollowsUrl ==
    /\ fp_pc \in { "scan", "ask" }
         => \A k \in DOMAIN df :
               df[k]["__url_norm"] = extract_combined_url_text(df[k][URL_COL])
    /\ \A k \in DOMAIN output : "__url_norm" \notin DOMAIN output[k]

\* C23 witness: a merge gave row i a url typed in at the prompt, and row i is
\* about to be compared with the next row.
C23_Witness ==
    /\ fp_pc = "scan" /\ fp_choice = "y" /\ fp_run = 1
    /\ i <= Len(df) /\ j <= Len(df)
    /\ df[i][URL_COL] = <<"7", ".", "5">>
    /\ df[i]["__url_norm"] = <<" ", "7", " ", "5">>

\* the printed entry names something of the incoming and of the existing record
IdentifiesBoth(e) == DOMAIN e.incoming # {} /\ DOMAIN e.existing # {}

\* C24: in process_data every exact-duplicate discard and every resolved
\* conflict adds one entry to what is printed about decisions, the entry
\* identifies the incoming and the existing record and gives the outcome, and
\* the entries printed before stay as they were.
C24_DecisionsLogged ==
    [][ /\ (AtLoopHead /\ IsDirectDuplicate(new_pub, existing_raw_urls))
              => /\ Len(printed') = Len(printed) + 1
                 /\ printed'[Len(printed')].outcome = "duplicate"
                 /\ IdentifiesBoth(printed'[Len(printed')])
        /\ (pc = "prompt" /\ choice' \in { "1", "2", "B", "S" })
              => /\ Len(printed') = Len(printed) + 1
                 /\ printed'[Len(printed')].outcome = choice'
                 /\ IdentifiesBoth(printed'[Len(printed')])
        /\ run' = run
              => /\ Len(printed') >= Len(printed)
                 /\ SubSeq(printed', 1, Len(printed)) = printed ]_vars

ValidChoices == { "1", "2", "B", "S" }

\* C25: while process_data waits at a conflict, an answer other than 1, 2, B
\* or S leaves the store, the accepted-URL set, the incoming record and the
\* conflict as they are and the prompt is shown again; the pass leaves the
\* prompt, and moves on to a later record, only with one of the four answers.
C25_InvalidInputStays ==
    [][ /\ (pc = "prompt" /\ choice' \notin ValidChoices)
              => /\ total_entries' = total_entries
                 /\ existing_raw_urls' = existing_raw_urls
                 /\ n' = n
                 /\ matching_existing_pub' = matching_existing_pub
                 /\ pc' = "prompt"
        /\ (pc = "prompt" /\ (n' # n \/ pc' # "prompt"))
              => choice' \in ValidChoices ]_vars

C25_Witness ==
    /\ pc = "prompt" /\ choice = "X"
    /\ n <= Len(scraped_data) /\ matching_existing_pub # 0

\* a step that ends one iteration of the inner loop of find_pubdup
EndsInnerIteration ==
    /\ fp_pc' = "scan"
    /\ \/ fp_pc \in { "ask", "merge" }
       \/ fp_pc = "scan" /\ i <= Len(df) /\ j <= Len(df)

\* C26: the find_pubdup pass terminates: every iteration of the inner loop
\* either advances j over an unchanged table or removes one row, and the pass
\* eventually writes its output.
C26_PassTerminates ==
    /\ [][ EndsInnerIteration
             => /\ i' = i
                /\ \/ j' = j + 1 /\ df' = df
                   \/ j' = j /\ Len(df') = Len(df) - 1 ]_vars
    /\ <>(fp_pc = "done")

C26_Witness ==
    /\ fp_pc = "done" /\ fp_run = 1
    /\ fp_choice = "y" /\ sel = <<"7",".","5","0">>
    /\ Len(output) = Len(df) /\ Len(df) = MaxRows - 1

\* the pair of rows a, b was printed with the url values the rows hold now and
\* answered keep both or skip
ReviewedAsIs(a, b) ==
    \E e \in Range(fp_printed) :
        /\ e.first = df[a][URL_COL] /\ e.second = df[b][URL_COL]
        /\ e.answer \in { "k", "s" }

\* C27: when the find_pubdup pass has written its output, every two rows left
\* whose url similarity is at or above the threshold were shown with exactly
\* these url values and answered keep both or skip.
C27_NoPairUnreviewed ==
    (fp_pc = "done" /\ fp_run = 1)
      => \A a \in DOMAIN df : \A b \in DOMAIN df :
            (a < b /\ AtOrAboveThreshold(similarity(df[a]["__url_norm"],
                                                    df[b]["__url_norm"])))
              => ReviewedAsIs(a, b)

\* no two records of the list have the same raw_url
DistinctUrls(pubs) ==
    \A a \in DOMAIN pubs : \A b \in DOMAIN pubs :
        a # b => pubs[a].raw_url # pubs[b].raw_url

\* C28: when the existing records have pairwise distinct URLs, the list
\* process_data returns has no two records with the same URL and the
\* accepted-URL set is the set of the URLs of the returned records.
C28_StoreUrlsDistinct ==
    (pc = "done" /\ run = 1 /\ DistinctUrls(existing_data))
      => /\ DistinctUrls(total_entries)
         /\ existing_raw_urls = { total_entries[k].raw_url : k \in DOMAIN total_entries }

\* no two rows have the same first column
DistinctFirstColumn(rows) ==
    \A a \in DOMAIN rows : \A b \in DOMAIN rows : a # b => rows[a][1] # rows[b][1]

\* C29: update_publications_data returns the existing rows unchanged and in
\* order, followed only by rows whose first column is the anchor field of a
\* JSON record with a URL and is not in the existing table; when the existing
\* table has no duplicate first column, neither has the result.
C29_AppendsOnlyNewAnchors ==
    pure_pc = "update_done"
      => /\ Len(pure_out) >= Len(pure_in.existing_rows)
         /\ SubSeq(pure_out, 1, Len(pure_in.existing_rows)) = pure_in.existing_rows
         /\ \A k \in (Len(pure_in.existing_rows) + 1)..Len(pure_out) :
               /\ \E r \in Range(pure_in.records) :
                     HasUrl(r) /\ pure_out[k][1] = url_title_field(r)
               /\ \A e \in Range(pure_in.existing_rows) : e[1] # pure_out[k][1]
         /\ DistinctFirstColumn(pure_in.existing_rows) => DistinctFirstColumn(pure_out)

\* the entry is a member of a printed group
Reported(entry) == \E g \in Range(pure_out) : entry \in Range(g.entries)

\* entries k and m both have a title and the titles normalize to the same text
SharesTitle(k, m) ==
    /\ pure_in[k].title # <<>> /\ pure_in[m].title # <<>>
    /\ find_duplicates_normalize_title(pure_in[k].title)
         = find_duplicates_normalize_title(pure_in[m].title)

\* C30: find_duplicates reports an entry exactly when it has a title and
\* another entry with a title has the same normalized title; every normalized
\* title is reported at most once, with all the entries that share it, and an
\* entry without a title is not reported.
C30_ReportsExactlySharedTitles ==
    pure_pc = "dups_done"
      => /\ \A k \in DOMAIN pure_in :
               Reported(pure_in[k])
                 <=> \E m \in DOMAIN pure_in : m # k /\ SharesTitle(k, m)
         /\ \A a \in DOMAIN pure_out : \A b \in DOMAIN pure_out :
               a # b => pure_out[a].normalized # pure_out[b].normalized
         /\ \A g \in Range(pure_out) :
               g.entries = SelectSeq(pure_in, LAMBDA e :
                              /\ e.title # <<>>
                              /\ find_duplicates_normalize_title(e.title) = g.normalized)

C30_Witness ==
    /\ pure_pc = "dups_done"
    /\ Len(pure_in) = MaxEntries
    /\ pure_in[1].title = <<"A"," ","b">> /\ pure_in[2].title = <<>>
    /\ pure_in[3].title = <<"a"," "," ","b","-">>
    /\ Len(pure_out) = 1 /\ Len(pure_out[1].entries) = 2

====
